---- MODULE Spec2Model ----
(***************************************************************************)
(* Model of qtile's IPC layer (libqtile/ipc.py) and of the REPL session    *)
(* manager behind it (libqtile/interactive/repl.py).                       *)
(*                                                                         *)
(* Two specifications share the module:                                    *)
(*   SpecCodec  the frame codec (pack_message / read_message /             *)
(*              write_message) on one byte stream, bytes as 0..255;        *)
(*   Spec       the server's connection handlers, the lock gate and the    *)
(*              REPL manager, frames travelling as the bytes the codec     *)
(*              produces.                                                  *)
(*                                                                         *)
(* Python values are tagged records, one field name per kind:              *)
(*   [t |-> "none"], [t |-> "bool", b |-> _], [t |-> "int", i |-> _],      *)
(*   [t |-> "float", lit |-> chars], [t |-> "str", s |-> code points],     *)
(*   [t |-> "list", items |-> seq], [t |-> "tuple", items |-> seq],        *)
(*   [t |-> "dict", pairs |-> seq of <<key, value>>],                      *)
(*   [t |-> "set", elems |-> set], [t |-> "object", cls |-> class name].   *)
(* Text is a sequence of code points, a byte string a sequence of 0..255.  *)
(***************************************************************************)
EXTENDS Integers, Sequences, FiniteSets, TLC

----------------------------------------------------------------------------
(* Protocol constants, ipc.py:28-54 *)

PROTOCOL_VERSION == 1

HEADER_LENGTH == 6

COMMAND == 1

COMMAND_RESPONSE == 2

REPL_EVAL == 16

REPL_EVAL_RESPONSE == 17

REPL_COMPLETE == 18

REPL_COMPLETE_RESPONSE == 19

REPL_SESSION_START == 20

REPL_SESSION_END == 21

KEEPALIVE == 240

KEEPALIVE_ACK == 241

CLOSE == 255

\* an enumeration with a twelfth member, 0x16
MessageTypeAndOneMore ==
  { COMMAND, COMMAND_RESPONSE, REPL_EVAL, REPL_EVAL_RESPONSE, REPL_COMPLETE,
    REPL_COMPLETE_RESPONSE, REPL_SESSION_START, REPL_SESSION_END, 22, KEEPALIVE,
    KEEPALIVE_ACK, CLOSE }

MessageType ==
  { COMMAND, COMMAND_RESPONSE, REPL_EVAL, REPL_EVAL_RESPONSE, REPL_COMPLETE,
    REPL_COMPLETE_RESPONSE, REPL_SESSION_START, REPL_SESSION_END, KEEPALIVE,
    KEEPALIVE_ACK, CLOSE }

----------------------------------------------------------------------------
(* Python values *)

PyNone == [t |-> "none"]

PyBool(x) == [t |-> "bool", b |-> x]

PyInt(n) == [t |-> "int", i |-> n]

PyFloat(chars) == [t |-> "float", lit |-> chars]

PyStr(chars) == [t |-> "str", s |-> chars]

PyList(xs) == [t |-> "list", items |-> xs]

PyTuple(xs) == [t |-> "tuple", items |-> xs]

PyDict(kvs) == [t |-> "dict", pairs |-> kvs]

PySet(xs) == [t |-> "set", elems |-> xs]

PyObject(c) == [t |-> "object", cls |-> c]

At(s, i) == IF i >= 1 /\ i <= Len(s) THEN s[i] ELSE -1

IsDigit(c) == c >= 48 /\ c <= 57

\* the sequences that list the set S once each: list(field) of a set, whose
\* iteration order the language does not fix
Orderings(S) ==
  { p \in [1..Cardinality(S) -> S] : \A i, j \in 1..Cardinality(S) : p[i] = p[j] => i = j }

----------------------------------------------------------------------------
(* json.dumps(msg, default=_json_encoder), ipc.py:100-110 *)

EncOk(chars) == [ok |-> TRUE, text |-> chars]

EncErr(e, ty) == [ok |-> FALSE, exc |-> e, type |-> ty]

RECURSIVE NatDigits(_)
NatDigits(n) ==
  IF n < 10 THEN <<48 + n>> ELSE Append(NatDigits(n \div 10), 48 + (n % 10))

IntRepr(n) == IF n < 0 THEN <<45>> \o NatDigits(-n) ELSE NatDigits(n)

HexDigit(d) == IF d < 10 THEN 48 + d ELSE 87 + d

Hex4(n) ==
  << HexDigit(n \div 4096), HexDigit((n \div 256) % 16),
     HexDigit((n \div 16) % 16), HexDigit(n % 16) >>

\* json.encoder.py_encode_basestring_ascii: one character
EscapeChar(c) ==
  CASE c = 34 -> <<92, 34>>
    [] c = 92 -> <<92, 92>>
    [] c = 10 -> <<92, 110>>
    [] c = 13 -> <<92, 114>>
    [] c = 9 -> <<92, 116>>
    [] c = 8 -> <<92, 98>>
    [] c = 12 -> <<92, 102>>
    [] c >= 32 /\ c <= 126 -> <<c>>
    [] c < 65536 -> <<92, 117>> \o Hex4(c)
    [] OTHER ->
         <<92, 117>> \o Hex4(55296 + ((c - 65536) \div 1024))
           \o <<92, 117>> \o Hex4(56320 + ((c - 65536) % 1024))

RECURSIVE EscapeChars(_)
\* character by character; the text is halved to keep the evaluation shallow
EscapeChars(s) ==
  IF s = <<>> THEN <<>>
  ELSE IF Len(s) = 1 THEN EscapeChar(s[1])
  ELSE EscapeChars(SubSeq(s, 1, Len(s) \div 2))
         \o EscapeChars(SubSeq(s, Len(s) \div 2 + 1, Len(s)))

EncodeString(s) == <<34>> \o EscapeChars(s) \o <<34>>

\* type(field), as the error message shows it
TypeName(o) == IF o.t = "object" THEN o.cls ELSE o.t

\* the name a dict key is written under: str as it is, int, bool and None
\* coerced to text, anything else a TypeError
KeyText(k) ==
  CASE k.t = "str" -> EncOk(EncodeString(k.s))
    [] k.t = "int" -> EncOk(<<34>> \o IntRepr(k.i) \o <<34>>)
    [] k.t = "bool" ->
         EncOk(IF k.b THEN <<34, 116, 114, 117, 101, 34>>
                      ELSE <<34, 102, 97, 108, 115, 101, 34>>)
    [] k.t = "none" -> EncOk(<<34, 110, 117, 108, 108, 34>>)
    [] OTHER -> EncErr("TypeError", TypeName(k))

\* a default hook that converts nothing
JsonEncoderAcceptsNothing(field) == FALSE

\* _json_encoder: the default hook, called for what json cannot serialize
JsonEncoderAccepts(field) == field.t = "set"

RECURSIVE Dumps(_), DumpsItems(_), DumpsPairs(_)
\* every outcome json.dumps(o, default=_json_encoder) can have: the text, or
\* the first error met on the way
Dumps(o) ==
  CASE o.t = "none" -> {EncOk(<<110, 117, 108, 108>>)}
    [] o.t = "bool" ->
         {EncOk(IF o.b THEN <<116, 114, 117, 101>> ELSE <<102, 97, 108, 115, 101>>)}
    [] o.t = "int" -> {EncOk(IntRepr(o.i))}
    [] o.t = "float" -> {EncOk(o.lit)}
    [] o.t = "str" -> {EncOk(EncodeString(o.s))}
    [] o.t \in {"list", "tuple"} ->
         { IF r.ok THEN EncOk(<<91>> \o r.text \o <<93>>) ELSE r : r \in DumpsItems(o.items) }
    [] o.t = "dict" ->
         { IF r.ok THEN EncOk(<<123>> \o r.text \o <<125>>) ELSE r : r \in DumpsPairs(o.pairs) }
    [] JsonEncoderAccepts(o) ->
         UNION { Dumps(PyList(p)) : p \in Orderings(o.elems) }
    [] OTHER -> {EncErr("ValueError", TypeName(o))}

DumpsItems(items) ==
  IF items = <<>> THEN {EncOk(<<>>)}
  ELSE LET heads == Dumps(Head(items))
           sep == IF Len(items) = 1 THEN <<>> ELSE <<44, 32>>
       IN  { h \in heads : ~h.ok }
           \cup { IF tl.ok THEN EncOk(h.text \o sep \o tl.text) ELSE tl :
                    h \in { x \in heads : x.ok }, tl \in DumpsItems(Tail(items)) }

DumpsPairs(pairs) ==
  IF pairs = <<>> THEN {EncOk(<<>>)}
  ELSE LET key == KeyText(Head(pairs)[1])
           vals == IF key.ok THEN Dumps(Head(pairs)[2]) ELSE {key}
           sep == IF Len(pairs) = 1 THEN <<>> ELSE <<44, 32>>
       IN  { h \in vals : ~h.ok }
           \cup { IF tl.ok THEN EncOk(key.text \o <<58, 32>> \o h.text \o sep \o tl.text)
                           ELSE tl :
                    h \in { x \in vals : x.ok }, tl \in DumpsPairs(Tail(pairs)) }

\* str.encode(): UTF-8
Utf8EncodeChar(c) ==
  CASE c < 128 -> <<c>>
    [] c < 2048 -> <<192 + (c \div 64), 128 + (c % 64)>>
    [] c < 65536 -> <<224 + (c \div 4096), 128 + ((c \div 64) % 64), 128 + (c % 64)>>
    [] OTHER ->
         << 240 + (c \div 262144), 128 + ((c \div 4096) % 64),
            128 + ((c \div 64) % 64), 128 + (c % 64) >>

RECURSIVE Utf8Encode(_)
Utf8Encode(s) ==
  IF s = <<>> THEN <<>>
  ELSE IF Len(s) = 1 THEN Utf8EncodeChar(s[1])
  ELSE Utf8Encode(SubSeq(s, 1, Len(s) \div 2))
         \o Utf8Encode(SubSeq(s, Len(s) \div 2 + 1, Len(s)))

\* pack: the payload bytes, or the error json.dumps raised
pack(msg) ==
  { IF r.ok THEN [ok |-> TRUE, bytes |-> Utf8Encode(r.text)] ELSE r : r \in Dumps(msg) }

\* struct.pack("!BBL", version, type, length)
StructPackHeader(version, msg_type, length) ==
  << version, msg_type, (length \div 16777216) % 256, (length \div 65536) % 256,
     (length \div 256) % 256, length % 256 >>

\* the length field counts the header as well
pack_message_LengthOfFrame(msg_type, payload) ==
  { IF r.ok
      THEN [ok |-> TRUE,
            bytes |-> StructPackHeader(PROTOCOL_VERSION, msg_type,
                                       HEADER_LENGTH + Len(r.bytes)) \o r.bytes]
      ELSE r : r \in pack(payload) }

pack_message(msg_type, payload) ==
  { IF r.ok
      THEN [ok |-> TRUE,
            bytes |-> StructPackHeader(PROTOCOL_VERSION, msg_type, Len(r.bytes)) \o r.bytes]
      ELSE r : r \in pack(payload) }

----------------------------------------------------------------------------
(* bytes.decode() and json.loads, called by unpack, ipc.py:113-118 *)

IsCont(b) == b >= 128 /\ b <= 191

\* the least element of a set of indexes, or dflt when it is empty
FirstOf(js, dflt) == IF js = {} THEN dflt ELSE CHOOSE j \in js : \A k \in js : j <= k

\* the end of the run of ASCII bytes that starts at i
AsciiRunEnd(b, i) == FirstOf({ j \in i..Len(b) : b[j] >= 128 }, Len(b) + 1)

RECURSIVE Utf8DecodeFrom(_, _, _)
\* strict UTF-8: no overlong form, no surrogate, nothing above U+10FFFF
Utf8DecodeFrom(b, i, acc) ==
  IF i > Len(b) THEN [ok |-> TRUE, text |-> acc]
  ELSE LET b0 == b[i]
           b1 == At(b, i + 1)
           b2 == At(b, i + 2)
           b3 == At(b, i + 3)
           Run(e) == Utf8DecodeFrom(b, e, acc \o SubSeq(b, i, e - 1))
       IN  CASE b0 < 128 -> Run(AsciiRunEnd(b, i))
             [] b0 >= 194 /\ b0 <= 223 /\ IsCont(b1) ->
                  Utf8DecodeFrom(b, i + 2, Append(acc, (b0 - 192) * 64 + (b1 - 128)))
             [] b0 >= 224 /\ b0 <= 239 /\ IsCont(b1) /\ IsCont(b2)
                  /\ (b0 = 224 => b1 >= 160) /\ (b0 = 237 => b1 <= 159) ->
                  Utf8DecodeFrom(b, i + 3,
                    Append(acc, (b0 - 224) * 4096 + (b1 - 128) * 64 + (b2 - 128)))
             [] b0 >= 240 /\ b0 <= 244 /\ IsCont(b1) /\ IsCont(b2) /\ IsCont(b3)
                  /\ (b0 = 240 => b1 >= 144) /\ (b0 = 244 => b1 <= 143) ->
                  Utf8DecodeFrom(b, i + 4,
                    Append(acc, (b0 - 240) * 262144 + (b1 - 128) * 4096
                                  + (b2 - 128) * 64 + (b3 - 128)))
             [] OTHER -> [ok |-> FALSE]

Utf8Decode(b) == Utf8DecodeFrom(b, 1, <<>>)

ParseFail == [ok |-> FALSE]

Parsed(v, e) == [ok |-> TRUE, val |-> v, end |-> e]

IsWs(c) == c \in {32, 9, 10, 13}

RECURSIVE SkipWs(_, _)
SkipWs(s, i) == IF IsWs(At(s, i)) THEN SkipWs(s, i + 1) ELSE i

Matches(s, i, word) ==
  /\ i + Len(word) - 1 <= Len(s)
  /\ \A k \in 1..Len(word) : s[i + k - 1] = word[k]

RECURSIVE DigitsEnd(_, _)
\* the index after the run of digits that starts at i
DigitsEnd(s, i) == IF IsDigit(At(s, i)) THEN DigitsEnd(s, i + 1) ELSE i

RECURSIVE DigitsValue(_, _, _, _)
DigitsValue(s, i, e, acc) ==
  IF i >= e THEN acc ELSE DigitsValue(s, i + 1, e, acc * 10 + (s[i] - 48))

HexValue(c) ==
  CASE IsDigit(c) -> c - 48
    [] c >= 97 /\ c <= 102 -> c - 87
    [] c >= 65 /\ c <= 70 -> c - 55
    [] OTHER -> -1

\* json.decoder._decode_uXXXX: the four hex digits after "\u", or -1
DecodeUXXXX(s, i) ==
  IF \A k \in 0..3 : HexValue(At(s, i + k)) >= 0
    THEN HexValue(s[i]) * 4096 + HexValue(s[i + 1]) * 256
           + HexValue(s[i + 2]) * 16 + HexValue(s[i + 3])
    ELSE -1

Backslash(c) ==
  CASE c = 34 -> 34
    [] c = 92 -> 92
    [] c = 47 -> 47
    [] c = 98 -> 8
    [] c = 102 -> 12
    [] c = 110 -> 10
    [] c = 114 -> 13
    [] c = 116 -> 9
    [] OTHER -> -1

\* STRINGCHUNK: the end of the run of characters that are neither a quote,
\* nor a backslash, nor a control character
ChunkEnd(s, i) ==
  FirstOf({ j \in i..Len(s) : s[j] = 34 \/ s[j] = 92 \/ s[j] < 32 }, Len(s) + 1)

RECURSIVE ScanString(_, _, _)
\* json.decoder.py_scanstring, strict: i is the index after the opening quote
ScanString(s, i, acc) ==
  LET c == At(s, i) IN
  CASE c = -1 -> ParseFail
    [] c = 34 -> Parsed(PyStr(acc), i + 1)
    [] c >= 0 /\ c < 32 -> ParseFail
    [] c = 92 ->
         LET esc == At(s, i + 1) IN
         IF esc = 117
           THEN LET Escaped(uni, uni2) ==
                      IF uni < 0 THEN ParseFail
                      ELSE IF uni >= 55296 /\ uni <= 56319 /\ At(s, i + 6) = 92
                              /\ At(s, i + 7) = 117
                        THEN IF uni2 < 0 THEN ParseFail
                             ELSE IF uni2 >= 56320 /\ uni2 <= 57343
                               THEN ScanString(s, i + 12,
                                      Append(acc, 65536 + (uni - 55296) * 1024 + (uni2 - 56320)))
                               ELSE ScanString(s, i + 6, Append(acc, uni))
                        ELSE ScanString(s, i + 6, Append(acc, uni))
                IN  Escaped(DecodeUXXXX(s, i + 2),
                            IF At(s, i + 6) = 92 /\ At(s, i + 7) = 117
                              THEN DecodeUXXXX(s, i + 8) ELSE -1)
           ELSE LET Simple(ch) ==
                      IF ch < 0 THEN ParseFail ELSE ScanString(s, i + 2, Append(acc, ch))
                IN  Simple(Backslash(esc))
    [] OTHER -> LET Chunk(e) == ScanString(s, e, acc \o SubSeq(s, i, e - 1))
                IN  Chunk(ChunkEnd(s, i))

\* json.scanner NUMBER_RE: (-?(?:0|[1-9]\d*))(\.\d+)?([eE][-+]?\d+)?
ScanNumber(s, i) ==
  LET neg == At(s, i) = 45
      d0 == IF neg THEN i + 1 ELSE i
      Number(intEnd, expEnd) ==
        IF intEnd = d0 THEN ParseFail
        ELSE IF expEnd > intEnd THEN Parsed(PyFloat(SubSeq(s, i, expEnd - 1)), expEnd)
        ELSE LET Whole(mag) == Parsed(PyInt(IF neg THEN -mag ELSE mag), intEnd)
             IN  Whole(DigitsValue(s, d0, intEnd, 0))
      Exponent(intEnd, fracEnd) ==
        LET expAt == IF At(s, fracEnd) \in {101, 69}
                       THEN IF At(s, fracEnd + 1) \in {43, 45} THEN fracEnd + 2
                            ELSE fracEnd + 1
                       ELSE 0
        IN  Number(intEnd,
                   IF expAt > 0 /\ IsDigit(At(s, expAt)) THEN DigitsEnd(s, expAt)
                   ELSE fracEnd)
      Fraction(intEnd) ==
        Exponent(intEnd,
                 IF At(s, intEnd) = 46 /\ IsDigit(At(s, intEnd + 1))
                   THEN DigitsEnd(s, intEnd + 1) ELSE intEnd)
  IN  Fraction(IF At(s, d0) = 48 THEN d0 + 1 ELSE DigitsEnd(s, d0))

\* dict(pairs): a repeated key keeps its first place and takes the last value
RECURSIVE DictOf(_, _)
DictOf(pairs, acc) ==
  IF pairs = <<>> THEN acc
  ELSE LET kv == Head(pairs)
           at == { j \in 1..Len(acc) : acc[j][1] = kv[1] }
       IN  DictOf(Tail(pairs),
                  IF at = {} THEN Append(acc, kv)
                  ELSE [acc EXCEPT ![CHOOSE j \in at : TRUE] = kv])

RECURSIVE ScanOnce(_, _), ScanArray(_, _, _), ScanObject(_, _, _)
\* json.scanner.py_make_scanner._scan_once
ScanOnce(s, i) ==
  LET c == At(s, i) IN
  CASE c = 34 -> ScanString(s, i + 1, <<>>)
    [] c = 123 ->
         LET j == SkipWs(s, i + 1) IN
         IF At(s, j) = 125 THEN Parsed(PyDict(<<>>), j + 1)
         ELSE IF At(s, j) = 34 THEN ScanObject(s, j + 1, <<>>)
         ELSE ParseFail
    [] c = 91 ->
         LET j == SkipWs(s, i + 1) IN
         IF At(s, j) = 93 THEN Parsed(PyList(<<>>), j + 1) ELSE ScanArray(s, j, <<>>)
    [] c = 110 /\ Matches(s, i, <<110, 117, 108, 108>>) -> Parsed(PyNone, i + 4)
    [] c = 116 /\ Matches(s, i, <<116, 114, 117, 101>>) -> Parsed(PyBool(TRUE), i + 4)
    [] c = 102 /\ Matches(s, i, <<102, 97, 108, 115, 101>>) -> Parsed(PyBool(FALSE), i + 5)
    [] OTHER ->
         \* the number pattern is tried first, the three constants after it
         LET Number(m) ==
               CASE m.ok -> m
                 [] c = 78 /\ Matches(s, i, <<78, 97, 78>>) ->
                      Parsed(PyFloat(<<78, 97, 78>>), i + 3)
                 [] c = 73 /\ Matches(s, i, <<73, 110, 102, 105, 110, 105, 116, 121>>) ->
                      Parsed(PyFloat(<<73, 110, 102, 105, 110, 105, 116, 121>>), i + 8)
                 [] c = 45 /\ Matches(s, i, <<45, 73, 110, 102, 105, 110, 105, 116, 121>>) ->
                      Parsed(PyFloat(<<45, 73, 110, 102, 105, 110, 105, 116, 121>>), i + 9)
                 [] OTHER -> ParseFail
         IN  Number(ScanNumber(s, i))

\* json.decoder.JSONArray: i is the index of the next value
ScanArray(s, i, acc) ==
  LET Next(j, got) ==
        IF At(s, j) = 93 THEN Parsed(PyList(got), j + 1)
        ELSE IF At(s, j) = 44 THEN ScanArray(s, SkipWs(s, j + 1), got)
        ELSE ParseFail
      Value(v) == IF ~v.ok THEN ParseFail ELSE Next(SkipWs(s, v.end), Append(acc, v.val))
  IN  Value(ScanOnce(s, i))

\* json.decoder.JSONObject: i is the index after the opening quote of a key
ScanObject(s, i, acc) ==
  LET Next(j, n, got) ==
        IF At(s, j) = 125 THEN Parsed(PyDict(DictOf(got, <<>>)), j + 1)
        ELSE IF At(s, j) = 44 /\ At(s, n) = 34 THEN ScanObject(s, n + 1, got)
        ELSE ParseFail
      After(j, got) == Next(j, SkipWs(s, j + 1), got)
      Value(k, v) ==
        IF ~v.ok THEN ParseFail
        ELSE After(SkipWs(s, v.end), Append(acc, <<k.val, v.val>>))
      Colon(k, c) ==
        IF At(s, c) # 58 THEN ParseFail ELSE Value(k, ScanOnce(s, SkipWs(s, c + 1)))
      Key(k) == IF ~k.ok THEN ParseFail ELSE Colon(k, SkipWs(s, k.end))
  IN  Key(ScanString(s, i, <<>>))

\* json.loads(text): one value between optional whitespace, nothing after it
JsonLoads(text) ==
  IF At(text, 1) = 65279 THEN ParseFail
  ELSE LET Value(v) ==
             IF v.ok /\ SkipWs(text, v.end) = Len(text) + 1 THEN v ELSE ParseFail
       IN  Value(ScanOnce(text, SkipWs(text, 1)))

\* unpack that catches the json error only
unpack_JsonErrorOnly(data) ==
  LET Loaded(text, v) ==
        IF v.ok THEN [ok |-> TRUE, val |-> v.val]
        ELSE IF ~text.ok
          THEN [ok |-> FALSE, exc |-> "UnicodeDecodeError", msg |-> "invalid start byte"]
        ELSE [ok |-> FALSE, exc |-> "IPCError", msg |-> "Unable to decode message payload"]
      Decoded(text) == Loaded(text, IF text.ok THEN JsonLoads(text.text) ELSE ParseFail)
  IN  Decoded(Utf8Decode(data))

\* unpack: ValueError (json) and UnicodeDecodeError both become IPCError
unpack(data) ==
  LET Loaded(v) ==
        IF v.ok THEN [ok |-> TRUE, val |-> v.val]
        ELSE [ok |-> FALSE, exc |-> "IPCError", msg |-> "Unable to decode message payload"]
      Decoded(text) == Loaded(IF text.ok THEN JsonLoads(text.text) ELSE ParseFail)
  IN  Decoded(Utf8Decode(data))


----------------------------------------------------------------------------
(* read_message and write_message, ipc.py:128-173 *)

\* struct.unpack("!BBL", header). The model checker's integers end at 2^31 - 1:
\* the inputs keep the top bit of the length field clear.
StructUnpackHeader(header) ==
  [ version |-> header[1], msg_type |-> header[2],
    length |-> header[3] * 16777216 + header[4] * 65536 + header[5] * 256 + header[6] ]

ReadErr(m, r) == [kind |-> "IPCError", msg |-> m, rest |-> r]

\* read_message that looks at the type byte before the version byte
read_message_TypeFirst(buf, eof) ==
  IF Len(buf) < HEADER_LENGTH
    THEN IF ~eof THEN [kind |-> "blocked", rest |-> buf]
         ELSE IF Len(buf) = 0 THEN [kind |-> "IncompleteReadError", rest |-> <<>>]
         ELSE ReadErr("Incomplete message header", <<>>)
  ELSE LET h == StructUnpackHeader(SubSeq(buf, 1, HEADER_LENGTH))
           after == SubSeq(buf, HEADER_LENGTH + 1, Len(buf))
       IN  IF h.msg_type \notin MessageType
             THEN ReadErr("Unknown message type", after)
           ELSE IF h.version # PROTOCOL_VERSION
             THEN ReadErr("Unsupported protocol version", after)
           ELSE IF h.length > 0
             THEN IF Len(after) < h.length
                    THEN IF eof THEN ReadErr("Incomplete message payload", <<>>)
                         ELSE [kind |-> "blocked", rest |-> buf]
                  ELSE LET rest == SubSeq(after, h.length + 1, Len(after))
                           Unpacked(payload) ==
                             IF payload.ok
                               THEN [kind |-> "ok", msg_type |-> h.msg_type,
                                     payload |-> payload.val, rest |-> rest]
                               ELSE [kind |-> payload.exc, msg |-> payload.msg, rest |-> rest]
                       IN  Unpacked(unpack(SubSeq(after, 1, h.length)))
           ELSE [kind |-> "ok", msg_type |-> h.msg_type, payload |-> PyNone, rest |-> after]

\* read_message on a reader that buffers buf and has (eof) or has not seen the
\* end of the stream. readexactly(n) returns n bytes when the buffer holds
\* them, raises IncompleteReadError(partial = the whole buffer) when the
\* stream ended before, and waits otherwise. rest is what the reader still
\* buffers afterwards.
read_message(buf, eof) ==
  IF Len(buf) < HEADER_LENGTH
    THEN IF ~eof THEN [kind |-> "blocked", rest |-> buf]
         ELSE IF Len(buf) = 0 THEN [kind |-> "IncompleteReadError", rest |-> <<>>]
         ELSE ReadErr("Incomplete message header", <<>>)
  ELSE LET h == StructUnpackHeader(SubSeq(buf, 1, HEADER_LENGTH))
           after == SubSeq(buf, HEADER_LENGTH + 1, Len(buf))
       IN  IF h.version # PROTOCOL_VERSION
             THEN ReadErr("Unsupported protocol version", after)
           ELSE IF h.msg_type \notin MessageType
             THEN ReadErr("Unknown message type", after)
           ELSE IF h.length > 0
             THEN IF Len(after) < h.length
                    THEN IF eof THEN ReadErr("Incomplete message payload", <<>>)
                         ELSE [kind |-> "blocked", rest |-> buf]
                  ELSE LET rest == SubSeq(after, h.length + 1, Len(after))
                           Unpacked(payload) ==
                             IF payload.ok
                               THEN [kind |-> "ok", msg_type |-> h.msg_type,
                                     payload |-> payload.val, rest |-> rest]
                               ELSE [kind |-> payload.exc, msg |-> payload.msg, rest |-> rest]
                       IN  Unpacked(unpack(SubSeq(after, 1, h.length)))
           ELSE [kind |-> "ok", msg_type |-> h.msg_type, payload |-> PyNone, rest |-> after]

\* write_message that sends version and type before it encodes the payload
write_message_HeaderFirst(written, msg_type, payload) ==
  { IF m.ok THEN [ok |-> TRUE, written |-> written \o m.bytes]
            ELSE [ok |-> FALSE, written |-> written \o <<PROTOCOL_VERSION, msg_type>>,
                  exc |-> m.exc, type |-> m.type] :
      m \in pack_message(msg_type, payload) }

\* write_message: pack_message runs first, so an encode error leaves the
\* stream as it was; written is what the peer's reader is given
write_message(written, msg_type, payload) ==
  { IF m.ok THEN [ok |-> TRUE, written |-> written \o m.bytes]
            ELSE [ok |-> FALSE, written |-> written, exc |-> m.exc, type |-> m.type] :
      m \in pack_message(msg_type, payload) }

----------------------------------------------------------------------------
(* String literals of ipc.py and repl.py, as code points *)

\* "error"
ERROR_KEY == << 101, 114, 114, 111, 114 >>

\* "Session locked."
SESSION_LOCKED ==
  << 83, 101, 115, 115, 105, 111, 110, 32, 108, 111, 99, 107, 101, 100, 46 >>

\* "REPL not enabled. Run start_repl_server first."
REPL_NOT_ENABLED ==
  << 82, 69, 80, 76, 32, 110, 111, 116, 32, 101, 110, 97, 98, 108, 101,
     100, 46, 32, 82, 117, 110, 32, 115, 116, 97, 114, 116, 95, 114, 101,
     112, 108, 95, 115, 101, 114, 118, 101, 114, 32, 102, 105, 114, 115,
     116, 46 >>

\* "Session is locked."
SESSION_IS_LOCKED ==
  << 83, 101, 115, 115, 105, 111, 110, 32, 105, 115, 32, 108, 111, 99, 107,
     101, 100, 46 >>

\* "session_id"
SESSION_ID_KEY == << 115, 101, 115, 115, 105, 111, 110, 95, 105, 100 >>

\* "message"
MESSAGE_KEY == << 109, 101, 115, 115, 97, 103, 101 >>

\* "REPL session started. Press Ctrl+C to exit."
SESSION_STARTED ==
  << 82, 69, 80, 76, 32, 115, 101, 115, 115, 105, 111, 110, 32, 115, 116,
     97, 114, 116, 101, 100, 46, 32, 80, 114, 101, 115, 115, 32, 67, 116,
     114, 108, 43, 67, 32, 116, 111, 32, 101, 120, 105, 116, 46 >>

\* "success"
SUCCESS_KEY == << 115, 117, 99, 99, 101, 115, 115 >>

\* "code"
CODE_KEY == << 99, 111, 100, 101 >>

\* "output"
OUTPUT_KEY == << 111, 117, 116, 112, 117, 116 >>

\* "text"
TEXT_KEY == << 116, 101, 120, 116 >>

\* "completions"
COMPLETIONS_KEY == << 99, 111, 109, 112, 108, 101, 116, 105, 111, 110, 115 >>

\* "Unknown REPL message type: "
UNKNOWN_REPL_TYPE ==
  << 85, 110, 107, 110, 111, 119, 110, 32, 82, 69, 80, 76, 32, 109, 101,
     115, 115, 97, 103, 101, 32, 116, 121, 112, 101, 58, 32 >>

\* "__builtins__", the one key of make_safer_env()
BUILTINS_KEY == << 95, 95, 98, 117, 105, 108, 116, 105, 110, 115, 95, 95 >>

\* "qtile", the one key of default_locals after enable(qtile)
QTILE_KEY == << 113, 116, 105, 108, 101 >>

\* the last line of the trace of a NameError is
\* "NameError: name '" + name + "' is not defined"
NAME_ERROR_HEAD ==
  << 78, 97, 109, 101, 69, 114, 114, 111, 114, 58, 32, 110, 97, 109, 101,
     32, 39 >>

NAME_ERROR_TAIL ==
  << 39, 32, 105, 115, 32, 110, 111, 116, 32, 100, 101, 102, 105, 110, 101,
     100 >>

\* "SyntaxError: invalid syntax", the last line of the trace of a text that
\* is neither an expression nor a statement
SYNTAX_ERROR ==
  << 83, 121, 110, 116, 97, 120, 69, 114, 114, 111, 114, 58, 32, 105, 110,
     118, 97, 108, 105, 100, 32, 115, 121, 110, 116, 97, 120 >>

\* "SyntaxError: <no detail available>", the last line of the trace of a
\* SyntaxError raised with no argument
SYNTAX_ERROR_BARE ==
  << 83, 121, 110, 116, 97, 120, 69, 114, 114, 111, 114, 58, 32, 60, 110,
     111, 32, 100, 101, 116, 97, 105, 108, 32, 97, 118, 97, 105, 108, 97, 98,
     108, 101, 62 >>

\* "TypeError: 'int' object is not callable", the last line of the trace of a
\* call of a value that is an int
NOT_CALLABLE ==
  << 84, 121, 112, 101, 69, 114, 114, 111, 114, 58, 32, 39, 105, 110, 116,
     39, 32, 111, 98, 106, 101, 99, 116, 32, 105, 115, 32, 110, 111, 116,
     32, 99, 97, 108, 108, 97, 98, 108, 101 >>

\* "if ", the start of an if statement
IF_ == << 105, 102, 32 >>

\* "raise ", the start of a raise statement
RAISE == << 114, 97, 105, 115, 101, 32 >>

\* "SystemExit" and "KeyboardInterrupt", the names of two classes that derive
\* from BaseException and not from Exception
SYSTEM_EXIT == << 83, 121, 115, 116, 101, 109, 69, 120, 105, 116 >>

KEYBOARD_INTERRUPT ==
  << 75, 101, 121, 98, 111, 97, 114, 100, 73, 110, 116, 101, 114, 114, 117,
     112, 116 >>

\* "ValueError", the name of a class that derives from Exception, and the
\* last line of the trace when it is raised with no argument
VALUE_ERROR == << 86, 97, 108, 117, 101, 69, 114, 114, 111, 114 >>

\* "TypeError: exceptions must derive from BaseException"
RAISE_TYPE_ERROR ==
  << 84, 121, 112, 101, 69, 114, 114, 111, 114, 58, 32, 101, 120, 99, 101,
     112, 116, 105, 111, 110, 115, 32, 109, 117, 115, 116, 32, 100, 101, 114,
     105, 118, 101, 32, 102, 114, 111, 109, 32, 66, 97, 115, 101, 69, 120, 99,
     101, 112, 116, 105, 111, 110 >>

\* "TypeError: compile() arg 1 must be a string, bytes or AST object"
COMPILE_TYPE_ERROR ==
  << 84, 121, 112, 101, 69, 114, 114, 111, 114, 58, 32, 99, 111, 109, 112,
     105, 108, 101, 40, 41, 32, 97, 114, 103, 32, 49, 32, 109, 117, 115, 116,
     32, 98, 101, 32, 97, 32, 115, 116, 114, 105, 110, 103, 44, 32, 98, 121,
     116, 101, 115, 32, 111, 114, 32, 65, 83, 84, 32, 111, 98, 106, 101, 99,
     116 >>

----------------------------------------------------------------------------
(* Python's dict.get, truth and hashing, as handle_message uses them *)

\* bool(v)
Truthy(v) ==
  CASE v.t = "none" -> FALSE
    [] v.t = "bool" -> v.b
    [] v.t = "int" -> v.i # 0
    [] v.t = "str" -> v.s # <<>>
    [] v.t \in {"list", "tuple"} -> v.items # <<>>
    [] v.t = "dict" -> v.pairs # <<>>
    [] OTHER -> TRUE

\* hash(v) does not raise
Hashable(v) == v.t \in {"none", "bool", "int", "float", "str"}

\* payload.get(key, default); only a dict has the method
HasGet(payload) == payload.t = "dict"

DictGet(payload, key, default) ==
  LET at == { i \in 1..Len(payload.pairs) : payload.pairs[i][1] = PyStr(key) }
  IN  IF at = {} THEN default ELSE payload.pairs[CHOOSE i \in at : TRUE][2]

----------------------------------------------------------------------------
(* REPLSession, repl.py:87-124. A session object is
   [session_id, locals, last_active]; locals is the namespace in insertion
   order, a sequence of <<name, value>>. The texts evaluated here have one
   of these shapes: an atom (a name or a decimal number), a call name(), an
   assignment name=atom, a statement "raise Name", a blank text, the
   beginning of a statement ("if " atom ":" or "(" atom), anything else
   being a syntax error;
   keywords and the names of builtins are not among the names, but for the
   three exception classes a raise may name. *)

SESSION_TIMEOUT == 3600

IsLetter(c) == (c >= 97 /\ c <= 122) \/ (c >= 65 /\ c <= 90) \/ c = 95

\* \w of the re module, on ASCII
IsWord(c) == IsLetter(c) \/ IsDigit(c)

IsIdent(code) ==
  /\ code # <<>>
  /\ IsLetter(code[1])
  /\ \A i \in 1..Len(code) : IsWord(code[i])

IsNumber(code) ==
  /\ code # <<>>
  /\ \A i \in 1..Len(code) : IsDigit(code[i])
  /\ (Len(code) = 1 \/ code[1] # 48)

IsAtom(code) == IsIdent(code) \/ IsNumber(code)

\* where the name is bound in the namespace, 0 when it is not
Lookup(locals, name) ==
  FirstOf({ i \in 1..Len(locals) : locals[i][1] = name }, 0)

\* an exec whose assignment goes to a namespace of its own
Bind_Dropped(locals, name, value) == locals

\* locals[name] = value: a bound name keeps its place
Bind(locals, name, value) ==
  LET Put(at) == IF at = 0 THEN Append(locals, <<name, value>>)
                 ELSE [locals EXCEPT ![at] = <<name, value>>]
  IN  Put(Lookup(locals, name))

\* repr(value); the repr of an object, which names its class and address, is
\* written <>
Repr(value) == IF value.t = "int" THEN IntRepr(value.i) ELSE <<60, 62>>

\* the value of an atom in the namespace, or the last line of the trace
EvalAtom(locals, atom) ==
  IF IsNumber(atom) THEN [ok |-> TRUE, val |-> PyInt(DigitsValue(atom, 1, Len(atom) + 1, 0))]
  ELSE LET Found(at) ==
             IF at = 0
               THEN [ok |-> FALSE, trace |-> NAME_ERROR_HEAD \o atom \o NAME_ERROR_TAIL]
               ELSE [ok |-> TRUE, val |-> locals[at][2]]
       IN  Found(Lookup(locals, atom))

\* the index of the "=" of an assignment name=atom, 0 for any other text
AssignAt(code) ==
  FirstOf({ k \in 2..(Len(code) - 1) :
              /\ code[k] = 61
              /\ IsIdent(SubSeq(code, 1, k - 1))
              /\ IsAtom(SubSeq(code, k + 1, Len(code))) }, 0)

\* the name after "raise " in a statement "raise Name", <<>> for any other
\* text
RaiseOf(code) ==
  LET K(name) == IF IsIdent(name) THEN name ELSE <<>>
  IN  IF Len(code) > Len(RAISE) /\ SubSeq(code, 1, Len(RAISE)) = RAISE
        THEN K(SubSeq(code, Len(RAISE) + 1, Len(code)))
        ELSE <<>>

\* "except Exception" catches the exception of class name: SystemExit and
\* KeyboardInterrupt derive from BaseException only
Catches(name) == name \notin {SYSTEM_EXIT, KEYBOARD_INTERRUPT}

\* callable(v): of the values here the functions, the bound methods and the
\* classes
Callable(v) ==
  v.t = "object" /\ v.cls \in {"function", "method", "builtin_function_or_method", "type"}

\* a function of the session that counts its calls and then returns None
\* (raises "none") or raises an exception of the class named:
\*   def f(): f.calls += 1; raise SyntaxError
PyFunction(raises) == [t |-> "object", cls |-> "function", raises |-> raises, calls |-> 0]

\* the name called in an expression "name()", <<>> for any other text
CallOf(code) ==
  LET K(name) == IF IsIdent(name) THEN name ELSE <<>>
  IN  IF Len(code) > 2 /\ SubSeq(code, Len(code) - 1, Len(code)) = <<40, 41>>
        THEN K(SubSeq(code, 1, Len(code) - 2))
        ELSE <<>>

\* the text is blank: codeop compiles "pass" in its place
IsBlank(code) == \A i \in 1..Len(code) : IsWs(code[i])

\* a compiler that takes no text for the beginning of a statement
IsIncomplete_Never(code) == FALSE

\* the text is the beginning of a statement with more to come, for which
\* codeop.CommandCompiler returns None: "if " atom ":", or "(" atom
IsIncomplete(code) ==
  \/ /\ Len(code) > Len(IF_) + 1
     /\ SubSeq(code, 1, Len(IF_)) = IF_
     /\ code[Len(code)] = 58
     /\ IsAtom(SubSeq(code, Len(IF_) + 1, Len(code) - 1))
  \/ /\ Len(code) > 1
     /\ code[1] = 40
     /\ IsAtom(Tail(code))

\* except SyntaxError, around compile() and eval() both: the exception eval
\* raised sends the text to the statement compiler
Fallback(raised) == raised = "SyntaxError"

\* REPLSession.evaluate_code: what the redirected stdout holds at the end, the
\* namespace, and the exception that leaves the method ("none" when it
\* returns); tried lists the modes the text was given to a compiler in and
\* runs counts the times compiled code of the text was run. An expression
\* prints its repr and a newline, or nothing for None; a statement prints
\* nothing; an exception that "except Exception" catches prints its trace;
\* code that is no string makes compile() raise TypeError.
evaluate_code(session, code, now) ==
  LET touched == [session EXCEPT !.last_active = now]
      Out(s, output, exc, tried, runs) ==
        [session |-> s, output |-> output, exc |-> exc, tried |-> tried, runs |-> runs]
      Expression(r) ==
        Out(touched, (IF r.ok THEN Repr(r.val) ELSE r.trace) \o <<10>>, "none", <<"eval">>, 1)
      Statement(k, r) ==
        IF r.ok
          THEN Out([touched EXCEPT
                      !.locals = Bind(session.locals, SubSeq(code.s, 1, k - 1), r.val)],
                   <<>>, "none", <<"eval", "single">>, 1)
          ELSE Out(touched, r.trace \o <<10>>, "none", <<"eval", "single">>, 1)
      Assignment(k) ==
        IF k = 0 THEN Out(touched, SYNTAX_ERROR \o <<10>>, "none", <<"eval", "single">>, 0)
        ELSE Statement(k, EvalAtom(session.locals, SubSeq(code.s, k + 1, Len(code.s))))
      Raise(name, r) ==
        IF name \in {SYSTEM_EXIT, KEYBOARD_INTERRUPT, VALUE_ERROR}
          THEN IF Catches(name)
                 THEN Out(touched, name \o <<10>>, "none", <<"eval", "single">>, 1)
                 ELSE Out(touched, <<>>,
                          IF name = SYSTEM_EXIT THEN "SystemExit" ELSE "KeyboardInterrupt",
                          <<"eval", "single">>, 1)
          ELSE Out(touched, (IF r.ok THEN RAISE_TYPE_ERROR ELSE r.trace) \o <<10>>, "none",
                   <<"eval", "single">>, 1)
      Counted(name, f, n) ==
        [touched EXCEPT !.locals = Bind(session.locals, name, [f EXCEPT !.calls = @ + n])]
      Invoke(name, f) ==
        IF "raises" \notin DOMAIN f THEN Out(touched, <<>>, "none", <<"eval">>, 1)
        ELSE IF f.raises = "none" THEN Out(Counted(name, f, 1), <<>>, "none", <<"eval">>, 1)
        ELSE IF Fallback(f.raises)
          THEN Out(Counted(name, f, 2), SYNTAX_ERROR_BARE \o <<10>>, "none",
                   <<"eval", "single">>, 2)
        ELSE Out(Counted(name, f, 1),
                 (IF f.raises = "SyntaxError" THEN SYNTAX_ERROR_BARE ELSE VALUE_ERROR) \o <<10>>,
                 "none", <<"eval">>, 1)
      Call(name, r) ==
        IF ~r.ok THEN Out(touched, r.trace \o <<10>>, "none", <<"eval">>, 1)
        ELSE IF ~Callable(r.val)
          THEN Out(touched, NOT_CALLABLE \o <<10>>, "none", <<"eval">>, 1)
        ELSE Invoke(name, r.val)
  IN  IF code.t # "str"
        THEN Out(touched, COMPILE_TYPE_ERROR \o <<10>>, "none", <<"eval">>, 0)
      ELSE IF IsBlank(code.s) THEN Out(touched, <<>>, "none", <<"eval", "single">>, 1)
      ELSE IF IsAtom(code.s) THEN Expression(EvalAtom(session.locals, code.s))
      ELSE IF CallOf(code.s) # <<>>
        THEN Call(CallOf(code.s), EvalAtom(session.locals, CallOf(code.s)))
      ELSE IF RaiseOf(code.s) # <<>>
        THEN Raise(RaiseOf(code.s), EvalAtom(session.locals, RaiseOf(code.s)))
      ELSE IF IsIncomplete(code.s) THEN Out(touched, <<>>, "none", <<"eval", "single">>, 0)
      ELSE Assignment(AssignAt(code.s))

\* where ATTR_MATCH.search(text) finds its match, if it finds one: the
\* longest run of word characters and dots that ends the text, or that ends
\* before the line end the text ends with ("$" matches there too)
TrailingRun(text) ==
  LET InRun(c) == IsWord(c) \/ c = 46
      Of(body) ==
        SubSeq(body,
               (IF \A i \in 1..Len(body) : InRun(body[i]) THEN 0
                ELSE CHOOSE i \in 1..Len(body) :
                       ~InRun(body[i]) /\ \A j \in (i + 1)..Len(body) : InRun(body[j])) + 1,
               Len(body))
  IN  Of(IF text # <<>> /\ text[Len(text)] = 10 THEN SubSeq(text, 1, Len(text) - 1)
         ELSE text)

\* the place of the last "." of s, 0 when it has none
LastDot(s) ==
  IF \A k \in 1..Len(s) : s[k] # 46 THEN 0
  ELSE CHOOSE k \in 1..Len(s) : s[k] = 46 /\ \A j \in (k + 1)..Len(s) : s[j] # 46

\* parse_completion_expr: (None, None) when the text ends with no run; else
\* the lazy first group of ATTR_MATCH takes the run up to its last ".", the
\* second what follows it; a run with no "." past its first character is the
\* first group whole, the second being None, returned as ""
parse_completion_expr(text) ==
  LET Split(run, k) ==
        IF run = <<>> THEN [expr |-> PyNone, attr_prefix |-> PyNone]
        ELSE IF k <= 1 THEN [expr |-> PyStr(run), attr_prefix |-> PyStr(<<>>)]
        ELSE [expr |-> PyStr(SubSeq(run, 1, k - 1)),
              attr_prefix |-> PyStr(SubSeq(run, k + 1, Len(run)))]
  IN  Split(TrailingRun(text), LastDot(TrailingRun(text)))

StartsWith(name, prefix) ==
  Len(prefix) <= Len(name) /\ SubSeq(name, 1, Len(prefix)) = prefix

RECURSIVE NamesFrom(_, _, _)
\* [name for name in local_vars if name.startswith(expr)]
NamesFrom(locals, i, prefix) ==
  IF i > Len(locals) THEN <<>>
  ELSE (IF StartsWith(locals[i][1], prefix) THEN <<PyStr(locals[i][1])>> ELSE <<>>)
         \o NamesFrom(locals, i + 1, prefix)

\* "__class__" and "__doc__", which every object has, "method" and "val" of
\* the class Dummy of test_get_completions_attribute, "bit_length" and "real"
\* of int
Attributes(v) ==
  << << <<95, 95, 99, 108, 97, 115, 115, 95, 95>>, PyObject("type") >>,
     << <<95, 95, 100, 111, 99, 95, 95>>,
        IF v = PyObject("Dummy") THEN PyNone ELSE PyStr(<<>>) >> >>
    \o (IF v = PyObject("Dummy")
          THEN << << <<109, 101, 116, 104, 111, 100>>, PyObject("method") >>,
                  << <<118, 97, 108>>, PyInt(42) >> >>
        ELSE IF v.t = "int"
          THEN << << <<98, 105, 116, 95, 108, 101, 110, 103, 116, 104>>,
                     PyObject("builtin_function_or_method") >>,
                  << <<114, 101, 97, 108>>, v >> >>
        ELSE <<>>)

RECURSIVE Parts(_)
\* the pieces of s between its dots
Parts(s) ==
  LET Cut(k) == IF k = 0 THEN <<s>>
                ELSE <<SubSeq(s, 1, k - 1)>> \o Parts(SubSeq(s, k + 1, Len(s)))
  IN  Cut(FirstOf({ k \in 1..Len(s) : s[k] = 46 }, 0))

RECURSIVE GetAttrs(_, _, _)
\* getattr taken for parts[i], parts[i + 1], ... one after the other from v
GetAttrs(v, parts, i) ==
  LET Next(at) == IF at = 0 THEN [ok |-> FALSE, exc |-> "AttributeError"]
                  ELSE GetAttrs(Attributes(v)[at][2], parts, i + 1)
  IN  IF i > Len(parts) THEN [ok |-> TRUE, val |-> v]
      ELSE Next(Lookup(Attributes(v), parts[i]))

\* eval(expr, {}, local_vars) of the first group of ATTR_MATCH: a dotted
\* name, or a decimal number; a piece that is no name is a SyntaxError
\* (literals of other forms are not among the texts)
EvalDotted(expr, local_vars) ==
  LET From(parts, first) ==
        IF ~first.ok THEN [ok |-> FALSE, exc |-> "NameError"]
        ELSE GetAttrs(first.val, parts, 2)
      Eval(parts) ==
        IF Len(parts) = 1 /\ IsNumber(parts[1]) THEN EvalAtom(local_vars, parts[1])
        ELSE IF \E i \in 1..Len(parts) : ~IsIdent(parts[i])
          THEN [ok |-> FALSE, exc |-> "SyntaxError"]
        ELSE From(parts, EvalAtom(local_vars, parts[1]))
  IN  Eval(Parts(expr))

\* an option that never gets its "("
Paren_Never(v) == <<>>

\* ("(" if callable(getattr(base, attr)) else "")
Paren(v) == IF Callable(v) THEN <<40>> ELSE <<>>

\* get_completions(text, local_vars) of the module: the list it returns, or
\* the TypeError of name.startswith(None), which is outside its try
Completions(text, local_vars) ==
  LET p == parse_completion_expr(text)
      Starts(a) == StartsWith(a[1], p.attr_prefix.s)
      Option(a) ==
        PyStr(p.expr.s \o <<46>> \o a[1] \o Paren(a[2]))
      Options(attrs) == [i \in 1..Len(attrs) |-> Option(attrs[i])]
      OfBase(base) ==
        IF ~base.ok THEN [ok |-> TRUE, options |-> <<>>]
        ELSE [ok |-> TRUE, options |-> Options(SelectSeq(Attributes(base.val), Starts))]
  IN  IF \A i \in 1..Len(text) : text[i] # 46
        THEN IF p.expr = PyNone
               THEN IF local_vars = <<>> THEN [ok |-> TRUE, options |-> <<>>]
                    ELSE [ok |-> FALSE, exc |-> "TypeError"]
               ELSE [ok |-> TRUE, options |-> NamesFrom(local_vars, 1, p.expr.s)]
      ELSE IF p.expr = PyNone THEN [ok |-> TRUE, options |-> <<>>]
      ELSE OfBase(EvalDotted(p.expr.s, local_vars))

\* REPLSession.get_completions
get_completions(session, text, now) ==
  LET touched == [session EXCEPT !.last_active = now]
      K(r) == IF r.ok THEN [ok |-> TRUE, session |-> touched,
                            completions |-> PyList(r.options)]
              ELSE [ok |-> FALSE, exc |-> r.exc, session |-> touched]
  IN  K(Completions(text, session.locals))

\* str.strip() of the blanks and line ends
RECURSIVE Strip(_)
Strip(s) ==
  IF s = <<>> THEN s
  ELSE IF IsWs(s[1]) THEN Strip(Tail(s))
  ELSE IF IsWs(s[Len(s)]) THEN Strip(SubSeq(s, 1, Len(s) - 1))
  ELSE s

----------------------------------------------------------------------------
(* REPLManager, repl.py:127-233. The manager is
   [enabled, qtile, default_locals, sessions]; sessions maps a session id to
   a reference into objs, the REPLSession objects that are alive. *)

\* str(uuid.uuid4()), the k-th one drawn: "u" and the digits of k stand for
\* the 36 characters; no two draws are equal
Uuid(k) == <<117>> \o NatDigits(k)

ErrorDict(message) == PyDict(<< <<PyStr(ERROR_KEY), PyStr(message)>> >>)

\* the least reference that names no object
NewRef(objs) ==
  CHOOSE k \in 1..(Cardinality(DOMAIN objs) + 1) :
    k \notin DOMAIN objs /\ \A j \in 1..(k - 1) : j \in DOMAIN objs

\* REPLSession.__init__: {**make_safer_env(), **locals_dict}
NewSession(session_id, default_locals, now) ==
  [ session_id |-> session_id,
    locals |-> << <<BUILTINS_KEY, PyObject("module")>> >> \o default_locals,
    last_active |-> now ]

\* a sweep that takes a session at the timeout, not after it
cleanup_inactive_sessions_AtTimeout(sessions, objs, now) ==
  [ sid \in { s \in DOMAIN sessions :
                ~(now - objs[sessions[s]].last_active >= SESSION_TIMEOUT) }
      |-> sessions[sid] ]

\* REPLManager.cleanup_inactive_sessions
cleanup_inactive_sessions(sessions, objs, now) ==
  [ sid \in { s \in DOMAIN sessions :
                ~(now - objs[sessions[s]].last_active > SESSION_TIMEOUT) }
      |-> sessions[sid] ]

\* a lookup that draws a uuid also for an id that is given and unknown
get_or_create_session_AlwaysMint(M, objs, session_id, now, minted) ==
  LET Create(kept, new_id, ref, drawn) ==
        [ ok |-> TRUE, ref |-> ref, minted |-> drawn,
          sessions |-> [ sid \in DOMAIN kept \cup {new_id} |->
                           IF sid = new_id THEN ref ELSE kept[sid] ],
          objs |-> [ r \in DOMAIN objs \cup {ref} |->
                       IF r = ref THEN NewSession(new_id, M.default_locals, now)
                       ELSE objs[r] ] ]
      Swept(kept) ==
        IF Truthy(session_id) /\ ~Hashable(session_id)
          THEN [ok |-> FALSE, exc |-> "TypeError", sessions |-> kept, objs |-> objs,
                minted |-> minted]
        ELSE IF Truthy(session_id) /\ session_id \in DOMAIN kept
          THEN [ok |-> TRUE, ref |-> kept[session_id], minted |-> minted,
                sessions |-> kept, objs |-> objs]
        ELSE Create(kept, PyStr(Uuid(minted + 1)), NewRef(objs), minted + 1)
  IN  Swept(cleanup_inactive_sessions(M.sessions, objs, now))

\* REPLManager.get_or_create_session; minted counts the uuids drawn so far
get_or_create_session(M, objs, session_id, now, minted) ==
  LET Create(kept, new_id, ref, drawn) ==
        [ ok |-> TRUE, ref |-> ref, minted |-> drawn,
          sessions |-> [ sid \in DOMAIN kept \cup {new_id} |->
                           IF sid = new_id THEN ref ELSE kept[sid] ],
          objs |-> [ r \in DOMAIN objs \cup {ref} |->
                       IF r = ref THEN NewSession(new_id, M.default_locals, now)
                       ELSE objs[r] ] ]
      Swept(kept) ==
        IF Truthy(session_id) /\ ~Hashable(session_id)
          THEN [ok |-> FALSE, exc |-> "TypeError", sessions |-> kept, objs |-> objs,
                minted |-> minted]
        ELSE IF Truthy(session_id) /\ session_id \in DOMAIN kept
          THEN [ok |-> TRUE, ref |-> kept[session_id], minted |-> minted,
                sessions |-> kept, objs |-> objs]
        ELSE IF Truthy(session_id) THEN Create(kept, session_id, NewRef(objs), minted)
        ELSE Create(kept, PyStr(Uuid(minted + 1)), NewRef(objs), minted + 1)
  IN  Swept(cleanup_inactive_sessions(M.sessions, objs, now))

\* a remove_session that deletes nothing
remove_session_Kept(sessions, session_id) == sessions

\* REPLManager.remove_session
remove_session(sessions, session_id) ==
  [ sid \in DOMAIN sessions \ {session_id} |-> sessions[sid] ]

\* the f-string of the last line: an IntEnum member formats as its number
UnknownReplType(msg_type) == UNKNOWN_REPL_TYPE \o IntRepr(msg_type)

\* the check of qtile.locked left out
HostGate_Off(M, host_locked) == FALSE

\* self.qtile is not None and self.qtile.locked
HostGate(M, host_locked) == M.qtile # "None" /\ host_locked

\* REPLManager.handle_message up to its first await or its return. The result
\* says how it went on: "return" with the response, "raise" with the
\* exception, or "executor" with the evaluation handed to run_in_executor.
handle_message(M, objs, host_locked, msg_type, payload, now, minted) ==
  LET Return(response, sessions, o, drawn) ==
        [kind |-> "return", response |-> response, sessions |-> sessions,
         objs |-> o, minted |-> drawn]
      Raise(exc, sessions, o, drawn) ==
        [kind |-> "raise", exc |-> exc, sessions |-> sessions, objs |-> o,
         minted |-> drawn]
      Started(g) ==
        Return(PyDict(<< <<PyStr(SESSION_ID_KEY), g.objs[g.ref].session_id>>,
                         <<PyStr(MESSAGE_KEY), PyStr(SESSION_STARTED)>> >>),
               g.sessions, g.objs, g.minted)
      Ended(session_id) ==
        IF ~Truthy(session_id)
          THEN Return(PyDict(<< <<PyStr(SUCCESS_KEY), PyBool(TRUE)>> >>),
                      M.sessions, objs, minted)
        ELSE IF ~Hashable(session_id) THEN Raise("TypeError", M.sessions, objs, minted)
        ELSE Return(PyDict(<< <<PyStr(SUCCESS_KEY), PyBool(TRUE)>> >>),
                    remove_session(M.sessions, session_id), objs, minted)
      Eval(code, g) ==
        IF ~g.ok THEN Raise(g.exc, g.sessions, g.objs, g.minted)
        ELSE [kind |-> "executor", ref |-> g.ref, code |-> code,
              sessions |-> g.sessions, objs |-> g.objs, minted |-> g.minted]
      Completed(g, r) ==
        IF ~r.ok THEN Raise(r.exc, g.sessions, [g.objs EXCEPT ![g.ref] = r.session], g.minted)
        ELSE Return(PyDict(<< <<PyStr(SESSION_ID_KEY), r.session.session_id>>,
                              <<PyStr(COMPLETIONS_KEY), r.completions>> >>),
                    g.sessions, [g.objs EXCEPT ![g.ref] = r.session], g.minted)
      Complete(text, g) ==
        IF ~g.ok THEN Raise(g.exc, g.sessions, g.objs, g.minted)
        ELSE IF text.t # "str"
          THEN Raise("TypeError", g.sessions,
                     [g.objs EXCEPT ![g.ref].last_active = now], g.minted)
        ELSE Completed(g, get_completions(g.objs[g.ref], text.s, now))
  IN  IF ~M.enabled THEN Return(ErrorDict(REPL_NOT_ENABLED), M.sessions, objs, minted)
      ELSE IF HostGate(M, host_locked)
        THEN Return(ErrorDict(SESSION_IS_LOCKED), M.sessions, objs, minted)
      ELSE IF msg_type = REPL_SESSION_START
        THEN Started(get_or_create_session(M, objs, PyNone, now, minted))
      ELSE IF msg_type \in {REPL_SESSION_END, REPL_EVAL, REPL_COMPLETE} /\ ~HasGet(payload)
        THEN Raise("AttributeError", M.sessions, objs, minted)
      ELSE IF msg_type = REPL_SESSION_END
        THEN Ended(DictGet(payload, SESSION_ID_KEY, PyNone))
      ELSE IF msg_type = REPL_EVAL
        THEN Eval(DictGet(payload, CODE_KEY, PyStr(<<>>)),
                  get_or_create_session(M, objs, DictGet(payload, SESSION_ID_KEY, PyNone),
                                        now, minted))
      ELSE IF msg_type = REPL_COMPLETE
        THEN Complete(DictGet(payload, TEXT_KEY, PyStr(<<>>)),
                      get_or_create_session(M, objs, DictGet(payload, SESSION_ID_KEY, PyNone),
                                            now, minted))
      ELSE Return(ErrorDict(UnknownReplType(msg_type)), M.sessions, objs, minted)

\* handle_message after the executor has run evaluate_code: the response
EvalResponse(session, output) ==
  PyDict(<< <<PyStr(SESSION_ID_KEY), session.session_id>>,
            <<PyStr(OUTPUT_KEY), PyStr(Strip(output))>> >>)

\* the objects something still refers to: the session map, or an evaluation
\* that is queued or running
Referenced(objs, sessions, held) ==
  [ r \in { x \in DOMAIN objs : x \in held \/ \E sid \in DOMAIN sessions : sessions[sid] = x }
      |-> objs[r] ]

----------------------------------------------------------------------------
(* Server, ipc.py:347-476. The state a frame is dispatched in is
   [locked, repl_handler, manager, objs, host_locked, now, minted]. *)

\* asyncio.Event.set() and clear() on Server.locked
lock_Toggle(flag) == ~flag

lock(flag) == TRUE

unlock(flag) == FALSE

\* qtile.locked, the host's own flag, after the same event
HostLockedAfter(event) == event = "locked"

\* self.locked.is_set() never holds
Gate_AlwaysClear(S) == FALSE

\* self.locked.is_set()
Gate(S) == S.locked

\* what Dispatch hands back: where the handler goes next ("await_frame",
\* "executor" or "closed"), the response to write (none or one), the calls of
\* the command handler (none or one), the exception that ended the loop, the
\* manager's sessions, the session objects, the uuids drawn and the
\* evaluation handed to the executor
Outcome(next, reply, called, exc, sessions, o, drawn, job) ==
  [ next |-> next, reply |-> reply, called |-> called, exc |-> exc,
    sessions |-> sessions, objs |-> o, minted |-> drawn, job |-> job ]

Reply(msg_type, payload) == <<[msg_type |-> msg_type, payload |-> payload]>>

ReplTypes == { REPL_EVAL, REPL_COMPLETE, REPL_SESSION_START, REPL_SESSION_END }

\* the handler's answer sent as the second item of a pair with status 0
Called_Wrapped(S, h) ==
  IF h.kind = "return"
    THEN Outcome("await_frame", Reply(COMMAND_RESPONSE, PyTuple(<<PyInt(0), h.value>>)),
                 <<h>>, "none", S.manager.sessions, S.objs, S.minted, <<>>)
    ELSE Outcome("closed", <<>>, <<h>>, h.exc, S.manager.sessions, S.objs, S.minted, <<>>)

\* response = self.handler(payload), where the call did h: the value it
\* returned goes to write_message; an exception it raised leaves the loop
Called(S, h) ==
  IF h.kind = "return"
    THEN Outcome("await_frame", Reply(COMMAND_RESPONSE, h.value), <<h>>, "none",
                 S.manager.sessions, S.objs, S.minted, <<>>)
    ELSE Outcome("closed", <<>>, <<h>>, h.exc, S.manager.sessions, S.objs, S.minted, <<>>)

\* a loop that takes CLOSE for a type it does not handle
CloseBreaks_Never(msg_type) == FALSE

\* if msg_type == MessageType.CLOSE: break
CloseBreaks(msg_type) == msg_type = CLOSE

\* a loop that ends at a type it does not handle
Unhandled_Break(S) ==
  Outcome("closed", <<>>, <<>>, "none", S.manager.sessions, S.objs, S.minted, <<>>)

\* logger.warning("Unhandled message type: %s", msg_type), and the loop goes
\* on to the next read_message
Unhandled(S) ==
  Outcome("await_frame", <<>>, <<>>, "none", S.manager.sessions, S.objs, S.minted, <<>>)

\* a handler of the connection that takes the REPL handler as installed
NoReplHandler_Never(S) == FALSE

\* self.repl_handler is None, read for the frame at hand
NoReplHandler(S) == S.repl_handler = "None"

\* the body of the loop of _server_callback after read_message returned
\* (msg_type, payload), up to the write of the response or the next await.
\* outcomes is what a call of the command handler may do.
Dispatch(S, msg_type, payload, outcomes) ==
  LET Stay(reply) ==
        Outcome("await_frame", reply, <<>>, "none", S.manager.sessions, S.objs, S.minted,
                <<>>)
      Handled(m) ==
        CASE m.kind = "raise" ->
               Outcome("closed", <<>>, <<>>, m.exc, m.sessions, m.objs, m.minted, <<>>)
          [] m.kind = "executor" ->
               Outcome("executor", <<>>, <<>>, "none", m.sessions, m.objs, m.minted,
                       <<[ref |-> m.ref, code |-> m.code]>>)
          [] OTHER ->
               Outcome("await_frame",
                       CASE msg_type = REPL_EVAL -> Reply(REPL_EVAL_RESPONSE, m.response)
                         [] msg_type = REPL_COMPLETE ->
                              Reply(REPL_COMPLETE_RESPONSE, m.response)
                         [] msg_type = REPL_SESSION_START ->
                              Reply(REPL_EVAL_RESPONSE, m.response)
                         [] OTHER -> <<>>,
                       <<>>, "none", m.sessions, m.objs, m.minted, <<>>)
  IN  CASE CloseBreaks(msg_type) ->
             { Outcome("closed", <<>>, <<>>, "none", S.manager.sessions, S.objs, S.minted,
                       <<>>) }
        [] msg_type = KEEPALIVE -> { Stay(Reply(KEEPALIVE_ACK, PyNone)) }
        [] msg_type = COMMAND ->
             IF Gate(S)
               THEN { Stay(Reply(COMMAND_RESPONSE,
                                 PyTuple(<<PyInt(1), ErrorDict(SESSION_LOCKED)>>))) }
               ELSE { Called(S, h) : h \in outcomes }
        [] msg_type \in ReplTypes ->
             IF NoReplHandler(S)
               THEN { Stay(Reply(IF msg_type = REPL_COMPLETE THEN REPL_COMPLETE_RESPONSE
                                 ELSE REPL_EVAL_RESPONSE,
                                 ErrorDict(REPL_NOT_ENABLED))) }
               ELSE { Handled(handle_message(S.manager, S.objs, S.host_locked, msg_type,
                                             payload, S.now, S.minted)) }
        [] OTHER -> { Unhandled(S) }

----------------------------------------------------------------------------
(* Inputs of the codec *)

MaxLen == 2

MaxFrames == 2

MaxRaw == 3

\* strings: empty, plain, quote + backslash + newline, and non-ASCII
\* (U+00E9, U+20AC, U+1F600) with DEL
Strings == { <<>>, <<97>>, <<34, 92, 10>>, <<233, 8364, 128512, 127>> }

Ints == { 0, 7, -120, 2147483647 }

\* the scalars put into containers; no two of them are == in Python
Leaves == { PyNone, PyBool(TRUE), PyInt(-120), PyStr(<<233, 34>>) }

Keys == { PyStr(<<97>>), PyStr(<<107, 34>>) }

SeqsUpTo(S, n) == UNION { [1..k -> S] : k \in 0..n }

ListsOf(S) == { PyList(xs) : xs \in SeqsUpTo(S, MaxLen) }

SetsOf(S) == { PySet(xs) : xs \in { x \in SUBSET S : Cardinality(x) <= MaxLen } }

DictsOf(K, S) ==
  { PyDict(kvs) :
      kvs \in { p \in SeqsUpTo(K \X S, MaxLen) :
                  \A i, j \in 1..Len(p) : p[i][1] = p[j][1] => i = j } }

Containers == ListsOf(Leaves) \cup SetsOf(Leaves) \cup DictsOf(Keys, Leaves)

Nested ==
  { PyList(<<c>>) : c \in Containers }
    \cup { PyDict(<< <<PyStr(<<102, 111, 111>>), c>> >>) : c \in Containers }
    \cup { PyList(<<PyInt(7), c, c>>) : c \in SetsOf(Leaves) }

\* what json stores natively, plus sets: the values the round trip is about
\* a string whose payload is longer than one length byte can say
LongString == [i \in 1..300 |-> IF i % 100 = 0 THEN 233 ELSE 97]

JsonValues ==
  {PyNone, PyBool(TRUE), PyBool(FALSE)} \cup { PyInt(n) : n \in Ints }
    \cup { PyStr(x) : x \in Strings \cup {LongString} } \cup Containers \cup Nested

\* values json.dumps accepts but does not give back: tuples and keys that
\* are not strings
Coerced ==
  { PyTuple(<<PyInt(7), PyNone>>), PyDict(<< <<PyInt(7), PyNone>> >>),
    PyDict(<< <<PyBool(TRUE), PyInt(0)>>, <<PyNone, PyTuple(<<>>)>> >>) }

Unsupported == { PyObject("NonSerializableType"), PyObject("frozenset") }

\* payloads that hold a value that is neither JSON-native nor a set
BadPayloads ==
  Unsupported
    \cup { PyDict(<< <<PyStr(<<102, 111, 111>>), u>> >>) : u \in Unsupported }
    \cup { PyList(<<PyInt(7), u>>) : u \in Unsupported }
    \cup { PySet({PyInt(7), u}) : u \in Unsupported }
    \cup { PyList(<<PySet({PyNone, PyInt(7)}), PyList(<<u>>)>>) : u \in Unsupported }
    \cup { PyDict(<< <<PyTuple(<<>>), PyNone>> >>) }

SmallPayloads == { PyNone, PyDict(<<>>), PyList(<<>>), PySet({}), PySet({PyInt(7), PyNone}) }

\* the frames written first: every type with a few payloads, two types with
\* every payload
FirstFrames ==
  (MessageType \X SmallPayloads)
    \cup ({COMMAND, REPL_EVAL_RESPONSE} \X (JsonValues \cup Coerced \cup BadPayloads))

\* the frames written behind another one
NextFrames == {COMMAND, CLOSE} \X {PyNone, PyList(<<PyInt(7)>>), PyObject("frozenset")}

\* bytes of a payload that no codec wrote: 1 [ ] " and N a (for NaN), a
\* space, 0xC3 0xA9 (U+00E9 in UTF-8) and 0xFF (never valid in UTF-8)
RawBytes == { 49, 91, 93, 34, 78, 97, 32, 195, 169, 255 }

RawBodies == SeqsUpTo(RawBytes, MaxRaw)

BadVersions == { 0, 2, 153, 255 }

BadTypes == { 0, 3, 22, 153, 239, 254 }

\* header + body as a peer may send them: the length field says the body's
\* length, one more (the body is short) or one less (a byte follows)
RawFramed ==
  UNION { { StructPackHeader(PROTOCOL_VERSION, t, n) \o b :
              t \in {COMMAND, KEEPALIVE},
              n \in { Len(b), Len(b) + 1, Len(b) - 1 } \ {-1} } :
            b \in RawBodies }

\* headers with any version and type byte, with a short body, cut anywhere
RawGated ==
  UNION { { SubSeq(f, 1, k) : k \in 0..Len(f) } :
            f \in { StructPackHeader(v, t, n) \o b :
                      v \in BadVersions \cup {PROTOCOL_VERSION},
                      t \in BadTypes \cup {COMMAND, CLOSE},
                      n \in {0, 1, 2, 2147483647},
                      b \in { <<>>, <<49>>, <<255, 49>> } } }

RawStreams == RawFramed \cup RawGated

----------------------------------------------------------------------------
(* Inputs of the server *)

NConns == 2

MaxReqs == 2

MaxTicks == 1

Conns == 1..NConns

\* "s": a session id a client makes up
ClientSid == PyStr(<<115>>)

\* {"code": code, "session_id": "s"}
EvalRequest(code) ==
  PyDict(<< <<PyStr(CODE_KEY), PyStr(code)>>, <<PyStr(SESSION_ID_KEY), ClientSid>> >>)

\* the frames a client sends: one COMMAND, KEEPALIVE, CLOSE and the four REPL
\* requests (x=7 and x as codes, x as text to complete)
Requests ==
  { <<COMMAND, PyList(<<PyInt(7)>>)>>,
    <<KEEPALIVE, PyNone>>,
    <<CLOSE, PyNone>>,
    <<REPL_SESSION_START, PyDict(<<>>)>>,
    <<REPL_SESSION_END, PyDict(<< <<PyStr(SESSION_ID_KEY), ClientSid>> >>)>>,
    <<REPL_EVAL, EvalRequest(<<120, 61, 55>>)>>,
    <<REPL_EVAL, EvalRequest(<<120>>)>>,
    <<REPL_COMPLETE,
      PyDict(<< <<PyStr(TEXT_KEY), PyStr(<<120>>)>>, <<PyStr(SESSION_ID_KEY), ClientSid>> >>)>> }

\* the bytes of those frames
ClientFrames == UNION { { m.bytes : m \in pack_message(f[1], f[2]) } : f \in Requests }

\* what a call of the command handler may do: return (0, "ok") or raise
HandlerOutcomes ==
  { [kind |-> "return", value |-> PyTuple(<<PyInt(0), PyStr(<<111, 107>>)>>)],
    [kind |-> "raise", exc |-> "Exception"] }

\* how far the clock moves between two events
TickSteps == { SESSION_TIMEOUT, SESSION_TIMEOUT + 1 }

----------------------------------------------------------------------------
(* The state of the two specifications *)

VARIABLES
  cbuf,     \* bytes the reader buffers
  ceof,     \* the writing end was closed (feed_eof)
  csent,    \* the frames write_message put into cbuf that were not read yet
  craw,     \* cbuf was fed by hand, not by write_message
  cout      \* what the last operation did

cvars == <<cbuf, ceof, csent, craw, cout>>

VARIABLES
  locked,        \* Server.locked, the asyncio.Event, as is_set()
  repl_handler,  \* Server.repl_handler
  repl_manager,  \* the REPLManager: enabled, qtile, default_locals, sessions
  objs,          \* the REPLSession objects, by reference
  qtile_locked,  \* qtile.locked, the flag of the host
  now,           \* time.time()
  minted,        \* the number of uuids drawn
  pc,            \* where the handler of each connection is
  rbuf,          \* the bytes the server's reader buffers, per connection
  reof,          \* the client closed its end
  wbuf,          \* the bytes the server wrote to the client
  job,           \* the evaluation a handler awaits
  hist,          \* per connection, the frames read and how each was settled
  nsent          \* the number of frames the clients sent

svars ==
  <<locked, repl_handler, repl_manager, objs, qtile_locked, now, minted, pc, rbuf, reof,
    wbuf, job, hist, nsent>>

VARIABLE
  client         \* the PersistentClient: writer, bytes taken, call awaited, outcomes

VARIABLES
  completion,    \* the last call of get_completions(text, local_vars), with its result
  sys,           \* sys.stdout and sys.stderr of the host process
  threads,       \* per connection, the evaluate_code a worker thread is in
  evaluation,    \* a REPLSession of its own and the calls of evaluate_code on it
  oneshot        \* the Client and its calls of send: connection, bytes, outcomes

xvars == <<completion, sys, threads, evaluation, oneshot>>

vars == <<cvars, svars, client, xvars>>

----------------------------------------------------------------------------
(* The codec on one stream: a writer and a reader joined by a pipe, as in
   test_read_write_message *)

CodecInit ==
  /\ cbuf = <<>>
  /\ ceof = FALSE
  /\ csent = <<>>
  /\ craw = FALSE
  /\ cout = [op |-> "none"]

\* await write_message(writer, msg_type, payload)
CodecWrite ==
  /\ ~ceof /\ ~craw
  /\ Len(csent) < MaxFrames
  /\ \E f \in IF cout.op = "none" THEN FirstFrames ELSE NextFrames :
       \E w \in write_message(cbuf, f[1], f[2]) :
         /\ cbuf' = w.written
         /\ csent' = IF w.ok
                       THEN Append(csent, [msg_type |-> f[1], payload |-> f[2],
                                           size |-> Len(w.written) - Len(cbuf)])
                       ELSE csent
         /\ cout' = [op |-> "write", msg_type |-> f[1], payload |-> f[2],
                     res |-> [w EXCEPT !.written = <<>>], before |-> cbuf]
  /\ UNCHANGED <<ceof, craw, svars, client, xvars>>

\* reader.feed_data(raw) on a fresh reader
CodecFeed ==
  /\ cout.op = "none"
  /\ \E raw \in RawStreams :
       /\ cbuf' = raw
       /\ cout' = [op |-> "feed"]
  /\ craw' = TRUE
  /\ UNCHANGED <<ceof, csent, svars, client, xvars>>

\* reader.feed_eof()
CodecFeedEof ==
  /\ ~ceof
  /\ ceof' = TRUE
  /\ cout' = [op |-> "eof"]
  /\ UNCHANGED <<cbuf, csent, craw, svars, client, xvars>>

\* await read_message(reader), once it can return or raise
CodecRead ==
  \E r \in {read_message(cbuf, ceof)} :
  /\ r.kind # "blocked"
  /\ cbuf' = r.rest
  /\ csent' = IF csent = <<>> THEN csent ELSE Tail(csent)
  /\ cout' = [op |-> "read", res |-> r, before |-> cbuf, eof |-> ceof,
              sent |-> IF csent = <<>> THEN <<>> ELSE <<Head(csent)>>]
  /\ UNCHANGED <<ceof, craw, svars, client, xvars>>

CodecNext == CodecWrite \/ CodecFeed \/ CodecFeedEof \/ CodecRead

----------------------------------------------------------------------------
(* The server with its connections: one _server_callback task per accepted
   connection, the hooks, the REPL manager, the executor and the clock *)

ServerInit ==
  /\ locked = FALSE
  /\ repl_handler = "None"
  /\ repl_manager = [enabled |-> FALSE, qtile |-> "None", default_locals |-> <<>>,
                     sessions |-> <<>>]
  /\ objs = <<>>
  /\ qtile_locked = FALSE
  /\ now = 0
  /\ minted = 0
  /\ pc = [c \in Conns |-> "unconnected"]
  /\ rbuf = [c \in Conns |-> <<>>]
  /\ reof = [c \in Conns |-> FALSE]
  /\ wbuf = [c \in Conns |-> <<>>]
  /\ job = [c \in Conns |-> <<>>]
  /\ hist = [c \in Conns |-> <<>>]
  /\ nsent = 0

ClientInit ==
  client = [reader |-> "None", writer |-> "None", conn |-> 0, taken |-> 0, call |-> <<>>,
            returned |-> <<>>, lifecycle |-> <<>>]

\* the stream the process started with
HostStream == <<>>

\* the k-th StringIO made
StringIO(k) == <<k>>

\* "f", "g" and "h", and "test-session"
F_KEY == << 102 >>

G_KEY == << 103 >>

H_KEY == << 104 >>

TEST_SESSION == << 116, 101, 115, 116, 45, 115, 101, 115, 115, 105, 111, 110 >>

\* REPLSession("test-session", {...}) as the tests make it, with x bound to
\* 123 and three functions: f raises SyntaxError, g returns None, h raises
\* ValueError
TestSession ==
  NewSession(PyStr(TEST_SESSION),
             << << <<120>>, PyInt(123) >>,
                << F_KEY, PyFunction("SyntaxError") >>,
                << G_KEY, PyFunction("none") >>,
                << H_KEY, PyFunction("ValueError") >> >>,
             0)

\* a Client between two calls of send: no connection, nothing written or
\* read; sends counts the calls begun and returned lists what they gave
NoCall ==
  [ at |-> "idle", peer |-> "none", conn |-> 0, msg |-> PyNone, wrote |-> <<>>,
    fed |-> <<>>, fedeof |-> FALSE, taken |-> 0, opened |-> 0, closed |-> FALSE ]

\* no call of get_completions made yet; the streams of the process are the
\* host's own; no evaluation in a thread; the session of the tests as made;
\* a Client that has sent nothing
HostInit ==
  /\ completion = <<>>
  /\ sys = [stdout |-> HostStream, stderr |-> HostStream, written |-> <<>>, made |-> 0]
  /\ threads = [c \in Conns |-> <<>>]
  /\ evaluation = [session |-> TestSession, calls |-> <<>>]
  /\ oneshot = [call |-> NoCall, sends |-> 0, feeds |-> 0, returned |-> <<>>]

Init == ServerInit /\ CodecInit /\ ClientInit /\ HostInit

SpecCodec == Init /\ [][CodecNext]_vars

ServerState ==
  [ locked |-> locked, repl_handler |-> repl_handler, manager |-> repl_manager,
    objs |-> objs, host_locked |-> qtile_locked, now |-> now, minted |-> minted ]

\* the references the evaluations hold that are queued or running
Held(jobs) == { jobs[c][1].ref : c \in { x \in Conns : jobs[x] # <<>> } }

\* the number of the frame the handler of c reads next
NextN(c) == Cardinality({ i \in 1..Len(hist[c]) : hist[c][i].ev = "read" }) + 1

\* the handler reads while an evaluation it awaits is not back yet
CanRead_WhileEvaluating(at) == at \in {"await_frame", "executor", "resume"}

\* the handler is at "await read_message(reader)"
CanRead(at) == at = "await_frame"

\* write_message(writer, ...) of a response: the bytes go out, or the encoder
\* raises, or, the peer being gone, drain() raises ConnectionResetError
Written(c, reply) ==
  IF reply = <<>> THEN { [ok |-> TRUE, written |-> wbuf[c]] }
  ELSE write_message(wbuf[c], reply[1].msg_type, reply[1].payload)
         \cup (IF reof[c]
                 THEN { [ok |-> FALSE, written |-> wbuf[c], exc |-> "ConnectionResetError",
                         type |-> "none"] }
                 ELSE {})

\* what the log of c gains when frame n is settled
Settled(n, next, reply, w) ==
  IF ~w.ok \/ next = "closed" THEN <<[ev |-> "close", n |-> n]>>
  ELSE IF reply # <<>>
    THEN <<[ev |-> "write", n |-> n, msg_type |-> reply[1].msg_type,
            payload |-> reply[1].payload]>>
  ELSE IF next = "executor" THEN <<>>
  ELSE <<[ev |-> "skip", n |-> n]>>

\* an evaluation that runs on the loop: nothing else runs until it is done
LoopRuns_Inline(at) == \A c \in Conns : at[c] # "executor"

\* the event loop can run a callback that is ready: an evaluation is awaited
\* from run_in_executor and runs in a worker thread, whatever the handlers
\* are at
LoopRuns(at) == TRUE

\* a client connects and the server starts a handler for the connection
Connect(c) ==
  /\ LoopRuns(pc)
  /\ pc[c] = "unconnected"
  /\ \A b \in 1..(c - 1) : pc[b] # "unconnected"
  /\ pc' = [pc EXCEPT ![c] = "await_frame"]
  /\ UNCHANGED <<locked, repl_handler, repl_manager, objs, qtile_locked, now,
                 minted, rbuf, reof, wbuf, job, hist, nsent, cvars, client, xvars>>

\* the client writes a frame
ClientSend(c) ==
  /\ pc[c] \notin {"unconnected", "closed"}
  /\ ~reof[c]
  /\ nsent < MaxReqs
  /\ \E f \in ClientFrames : rbuf' = [rbuf EXCEPT ![c] = @ \o f]
  /\ nsent' = nsent + 1
  /\ UNCHANGED <<locked, repl_handler, repl_manager, objs, qtile_locked, now,
                 minted, pc, reof, wbuf, job, hist, cvars, client, xvars>>

\* the client closes its end
ClientClose(c) ==
  /\ pc[c] \notin {"unconnected", "closed"}
  /\ ~reof[c]
  /\ reof' = [reof EXCEPT ![c] = TRUE]
  /\ UNCHANGED <<locked, repl_handler, repl_manager, objs, qtile_locked, now,
                 minted, pc, rbuf, wbuf, job, hist, nsent, cvars, client, xvars>>

\* a loop that goes on to the next frame after an IPCError
AfterReadError_Continue(kind) ==
  IF kind = "IncompleteReadError" THEN "closed" ELSE "await_frame"

\* except asyncio.IncompleteReadError: break, except IPCError: break, and the
\* finally that closes the writer
AfterReadError(kind) == "closed"

\* one turn of the loop of _server_callback: read_message, then the branch
\* of the frame up to "continue", "break" or the await of the REPL handler
ServerStep(c) ==
  /\ LoopRuns(pc)
  /\ CanRead(pc[c])
  /\ \E r \in {read_message(rbuf[c], reof[c])} :
       /\ r.kind # "blocked"
       /\ rbuf' = [rbuf EXCEPT ![c] = r.rest]
       /\ IF r.kind # "ok"
            THEN /\ pc' = [pc EXCEPT ![c] = AfterReadError(r.kind)]
                 /\ hist' = [hist EXCEPT ![c] = Append(@, [ev |-> "close", n |-> 0])]
                 /\ UNCHANGED <<wbuf, job, repl_manager, objs, minted>>
            ELSE \E d \in Dispatch(ServerState, r.msg_type, r.payload, HandlerOutcomes) :
                 \E w \in Written(c, d.reply) :
                   /\ pc' = [pc EXCEPT ![c] = IF w.ok THEN d.next ELSE "closed"]
                   /\ wbuf' = [wbuf EXCEPT ![c] = w.written]
                   /\ job' = [job EXCEPT ![c] = IF w.ok THEN d.job ELSE <<>>]
                   /\ repl_manager' = [repl_manager EXCEPT !.sessions = d.sessions]
                   /\ objs' = Referenced(d.objs, d.sessions, Held(job'))
                   /\ minted' = d.minted
                   /\ hist' = [hist EXCEPT ![c] =
                                 Append(@, [ev |-> "read", n |-> NextN(c),
                                            msg_type |-> r.msg_type])
                                   \o [i \in 1..Len(d.called) |->
                                         [ev |-> "call", n |-> NextN(c),
                                          payload |-> r.payload, out |-> d.called[i]]]
                                   \o Settled(NextN(c), d.next, d.reply, w)]
  /\ UNCHANGED <<locked, repl_handler, qtile_locked, now, reof, nsent, cvars, client, xvars>>

\* the executor runs session.evaluate_code(code) in a worker thread
WorkerRun(c) ==
  /\ pc[c] = "executor"
  /\ \E r \in {evaluate_code(objs[job[c][1].ref], job[c][1].code, now)} :
       /\ objs' = [objs EXCEPT ![job[c][1].ref] = r.session]
       /\ job' = [job EXCEPT ![c] = <<[ref |-> job[c][1].ref, code |-> job[c][1].code,
                                       output |-> r.output, exc |-> r.exc]>>]
  /\ pc' = [pc EXCEPT ![c] = "resume"]
  /\ UNCHANGED <<locked, repl_handler, repl_manager, qtile_locked, now, minted,
                 rbuf, reof, wbuf, hist, nsent, cvars, client, xvars>>

\* the handlers after an exception left "await self.repl_handler(...)" on
\* connection c: "except Exception" does not catch it, "finally" closes the
\* writer, and the task of the connection ends with it. SystemExit and
\* KeyboardInterrupt the task raises again into the loop: run_forever ends
\* and no handler runs any more.
AfterEscape(at, c, exc) ==
  IF exc \in {"SystemExit", "KeyboardInterrupt"} THEN [d \in Conns |-> "closed"]
  ELSE [at EXCEPT ![c] = "closed"]

\* the await of run_in_executor is over: handle_message returns the output
\* and _server_callback writes the REPL_EVAL_RESPONSE, or the exception that
\* left evaluate_code leaves handle_message and _server_callback too
ServerResume(c) ==
  /\ pc[c] = "resume"
  /\ IF job[c][1].exc # "none"
       THEN /\ pc' = AfterEscape(pc, c, job[c][1].exc)
            /\ hist' = [hist EXCEPT ![c] = Append(@, [ev |-> "close", n |-> NextN(c) - 1])]
            /\ UNCHANGED wbuf
       ELSE \E reply \in {Reply(REPL_EVAL_RESPONSE,
                                 EvalResponse(objs[job[c][1].ref], job[c][1].output))} :
            \E w \in Written(c, reply) :
              /\ pc' = [pc EXCEPT ![c] = IF w.ok THEN "await_frame" ELSE "closed"]
              /\ wbuf' = [wbuf EXCEPT ![c] = w.written]
              /\ hist' = [hist EXCEPT ![c] =
                            @ \o Settled(NextN(c) - 1, "await_frame", reply, w)]
  /\ job' = [job EXCEPT ![c] = <<>>]
  /\ objs' = Referenced(objs, repl_manager.sessions, Held(job'))
  /\ UNCHANGED <<locked, repl_handler, repl_manager, qtile_locked, now, minted,
                 rbuf, reof, nsent, cvars, client, xvars>>

\* hook "locked" fires: Server.lock, and the host sets its flag
Locked ==
  /\ locked' = lock(locked)
  /\ qtile_locked' = HostLockedAfter("locked")
  /\ UNCHANGED <<repl_handler, repl_manager, objs, now, minted, pc, rbuf, reof, wbuf, job,
                 hist, nsent, cvars, client, xvars>>

\* hook "unlocked" fires: Server.unlock, and the host clears its flag
Unlocked ==
  /\ locked' = unlock(locked)
  /\ qtile_locked' = HostLockedAfter("unlocked")
  /\ UNCHANGED <<repl_handler, repl_manager, objs, now, minted, pc, rbuf, reof, wbuf, job,
                 hist, nsent, cvars, client, xvars>>

\* Server.set_repl_handler(handler), with None or repl_manager.handle_message
SetReplHandler ==
  /\ \E h \in {"None", "handle_message"} : repl_handler' = h
  /\ UNCHANGED <<locked, repl_manager, objs, qtile_locked, now, minted, pc, rbuf,
                 reof, wbuf, job, hist, nsent, cvars, client, xvars>>

\* REPLManager.enable(qtile)
Enable ==
  /\ repl_manager' = [repl_manager EXCEPT
                        !.enabled = TRUE, !.qtile = "Qtile",
                        !.default_locals = << <<QTILE_KEY, PyObject("Qtile")>> >>]
  /\ UNCHANGED <<locked, repl_handler, objs, qtile_locked, now, minted, pc, rbuf,
                 reof, wbuf, job, hist, nsent, cvars, client, xvars>>

\* a disable that leaves the sessions in the map
Disable_KeepSessions ==
  /\ repl_manager' = [repl_manager EXCEPT !.enabled = FALSE]
  /\ UNCHANGED <<locked, repl_handler, objs, qtile_locked, now, minted, pc, rbuf, reof,
                 wbuf, job, hist, nsent, cvars, client, xvars>>

\* REPLManager.disable()
Disable ==
  /\ repl_manager' = [repl_manager EXCEPT !.enabled = FALSE, !.sessions = <<>>]
  /\ objs' = Referenced(objs, <<>>, Held(job))
  /\ UNCHANGED <<locked, repl_handler, qtile_locked, now, minted, pc, rbuf, reof,
                 wbuf, job, hist, nsent, cvars, client, xvars>>

\* time passes; only the age of a session object shows it
Tick ==
  /\ DOMAIN objs # {}
  /\ \E d \in TickSteps :
       /\ now + d <= MaxTicks * (SESSION_TIMEOUT + 1)
       /\ now' = now + d
  /\ UNCHANGED <<locked, repl_handler, repl_manager, objs, qtile_locked, minted,
                 pc, rbuf, reof, wbuf, job, hist, nsent, cvars, client, xvars>>

Next ==
  \/ \E c \in Conns : Connect(c)
  \/ \E c \in Conns : ClientSend(c)
  \/ \E c \in Conns : ClientClose(c)
  \/ \E c \in Conns : ServerStep(c)
  \/ \E c \in Conns : WorkerRun(c)
  \/ \E c \in Conns : ServerResume(c)
  \/ Locked
  \/ Unlocked
  \/ SetReplHandler
  \/ Enable
  \/ Disable
  \/ Tick

Spec == Init /\ [][Next]_vars


----------------------------------------------------------------------------
(* PersistentClient, ipc.py:226-344. The client is [reader, writer, conn,
   taken, call, returned, lifecycle]: reader and writer are "None" or "open"
   (writer is "closed" when the attribute still holds a writer that has been
   closed), conn is the connection of the server they belong to (0 for
   none), taken counts the bytes the reader has consumed of what the server
   wrote, call is the method that awaits its response, returned is what the
   methods called so far gave back, in the order of the calls, and lifecycle
   lists the calls of connect and close with what they gave. *)

\* the connection the client holds, or, when it holds none, the one its
\* next connect() is given: the server numbers the connections as it accepts
\* them and the client is the one that connects
KC ==
  LET opened == Cardinality({ i \in 1..Len(client.lifecycle) : client.lifecycle[i].opened })
  IN  IF client.conn # 0 THEN client.conn
      ELSE IF opened < NConns THEN opened + 1
      ELSE NConns

MaxCalls == 3

\* the five methods that write a request: the frame each writes and the type
\* of response it accepts (0: it reads none)
Methods ==
  { [op |-> "send_command", msg_type |-> COMMAND, payload |-> PyList(<<PyInt(7)>>),
     expects |-> COMMAND_RESPONSE],
    [op |-> "send_repl_eval", msg_type |-> REPL_EVAL, payload |-> EvalRequest(<<120, 61, 55>>),
     expects |-> REPL_EVAL_RESPONSE],
    [op |-> "send_repl_eval", msg_type |-> REPL_EVAL, payload |-> EvalRequest(<<120>>),
     expects |-> REPL_EVAL_RESPONSE],
    [op |-> "send_repl_complete", msg_type |-> REPL_COMPLETE,
     payload |-> PyDict(<< <<PyStr(TEXT_KEY), PyStr(<<120>>)>>,
                           <<PyStr(SESSION_ID_KEY), ClientSid>> >>),
     expects |-> REPL_COMPLETE_RESPONSE],
    [op |-> "start_repl_session", msg_type |-> REPL_SESSION_START, payload |-> PyDict(<<>>),
     expects |-> REPL_EVAL_RESPONSE],
    [op |-> "end_repl_session", msg_type |-> REPL_SESSION_END,
     payload |-> PyDict(<< <<PyStr(SESSION_ID_KEY), ClientSid>> >>),
     expects |-> 0] }

\* what a method returns for the response it read
Result(op, response) ==
  CASE op = "send_repl_complete" ->
         IF HasGet(response) THEN [kind |-> "return",
                                   value |-> DictGet(response, COMPLETIONS_KEY, PyList(<<>>))]
         ELSE [kind |-> "raise", exc |-> "AttributeError"]
    [] op = "start_repl_session" ->
         IF HasGet(response) THEN [kind |-> "return",
                                   value |-> DictGet(response, SESSION_ID_KEY, PyStr(<<>>))]
         ELSE [kind |-> "raise", exc |-> "AttributeError"]
    [] OTHER -> [kind |-> "return", value |-> response]

\* what the reader of the client still buffers
Unread == SubSeq(wbuf[KC], client.taken + 1, Len(wbuf[KC]))

\* the reader of the client has been fed the end of the stream: the server
\* has closed its writer
at_eof == pc[KC] = "closed"

\* the outcome of call n of the client
Outcome_Of(m, n, r) == [op |-> m.op, n |-> n, out |-> r]

\* PersistentClient.connect: the server accepts and starts a handler
connect ==
  /\ client.writer = "None"
  /\ pc[KC] = "unconnected"
  /\ client' = [client EXCEPT
                  !.reader = "open", !.writer = "open", !.conn = KC, !.taken = 0,
                  !.lifecycle = Append(@, [op |-> "connect", opened |-> TRUE,
                                           out |-> [kind |-> "return", value |-> PyNone]])]
  /\ pc' = [pc EXCEPT ![KC] = "await_frame"]
  /\ UNCHANGED <<locked, repl_handler, repl_manager, objs, qtile_locked, now,
                 minted, rbuf, reof, wbuf, job, hist, nsent, cvars, xvars>>

\* a method is called: write_message of its request, up to the await of the
\* response (end_repl_session returns at once). On a connection the server
\* has closed the bytes are lost, or drain() raises ConnectionResetError.
ClientRequest ==
  /\ client.writer = "open"
  /\ client.call = <<>>
  /\ nsent < MaxCalls
  /\ nsent' = nsent + 1
  /\ \E m \in Methods :
     \E sent \in write_message(rbuf[KC], m.msg_type, m.payload) :
     \E lost \in (IF pc[KC] = "closed" THEN {"dropped", "reset"} ELSE {"no"}) :
       /\ rbuf' = [rbuf EXCEPT ![KC] = IF lost = "no" THEN sent.written ELSE @]
       /\ client' =
            IF lost = "reset"
              THEN [client EXCEPT !.returned =
                      Append(@, Outcome_Of(m, nsent + 1,
                                           [kind |-> "raise", exc |-> "ConnectionResetError"]))]
            ELSE IF m.expects = 0
              THEN [client EXCEPT !.returned =
                      Append(@, Outcome_Of(m, nsent + 1, [kind |-> "return", value |-> PyNone]))]
            ELSE [client EXCEPT !.call = <<[m |-> m, n |-> nsent + 1]>>]
  /\ UNCHANGED <<locked, repl_handler, repl_manager, objs, qtile_locked, now,
                 minted, pc, reof, wbuf, job, hist, cvars, xvars>>

\* the read_message a method awaits gives a frame, or raises: the method
\* returns what the frame holds when it has the type the method expects
ClientReceive ==
  /\ client.call # <<>>
  /\ \E r \in {read_message(Unread, at_eof)} :
       /\ r.kind # "blocked"
       /\ client' =
            [client EXCEPT
               !.taken = Len(wbuf[KC]) - Len(r.rest),
               !.call = <<>>,
               !.returned =
                  Append(@, Outcome_Of(client.call[1].m, client.call[1].n,
                           IF r.kind # "ok" THEN [kind |-> "raise", exc |-> r.kind]
                           ELSE IF r.msg_type # client.call[1].m.expects
                             THEN [kind |-> "raise", exc |-> "IPCError: Unexpected response type"]
                           ELSE Result(client.call[1].m.op, r.payload)))]
  /\ UNCHANGED <<svars, cvars, xvars>>

\* asyncio.wait_for gives up on a read_message that has no whole frame yet:
\* the read is cancelled, TimeoutError leaves the method, the connection
\* stays as it is
ClientTimeout ==
  /\ client.call # <<>>
  /\ read_message(Unread, at_eof).kind = "blocked"
  /\ client' =
       [client EXCEPT
          !.call = <<>>,
          !.returned = Append(@, Outcome_Of(client.call[1].m, client.call[1].n,
                                            [kind |-> "raise", exc |-> "TimeoutError"]))]
  /\ UNCHANGED <<svars, cvars, xvars>>

ClientNext ==
  \/ connect
  \/ ClientRequest
  \/ ClientReceive
  \/ ClientTimeout
  \/ ServerStep(KC)
  \/ WorkerRun(KC)
  \/ ServerResume(KC)
  \/ SetReplHandler
  \/ Enable

SpecClient == Init /\ [][ClientNext]_vars

----------------------------------------------------------------------------
(* The server given bytes that are no frame *)

\* a header of another version, a header of no known type, a header cut
\* short, a payload cut short, a payload that is no JSON and one that is no
\* UTF-8
BadFrames ==
  { <<PROTOCOL_VERSION + 1, KEEPALIVE, 0, 0, 0, 0>>,
    <<PROTOCOL_VERSION, 3, 0, 0, 0, 0>>,
    <<PROTOCOL_VERSION, COMMAND>>,
    <<PROTOCOL_VERSION, COMMAND, 0, 0, 0, 3, 91>>,
    <<PROTOCOL_VERSION, COMMAND, 0, 0, 0, 1, 91>>,
    <<PROTOCOL_VERSION, COMMAND, 0, 0, 0, 1, 255>> }

\* a client writes such bytes
ClientSendBad(c) ==
  /\ pc[c] \notin {"unconnected", "closed"}
  /\ ~reof[c]
  /\ nsent < MaxReqs
  /\ \E f \in BadFrames : rbuf' = [rbuf EXCEPT ![c] = @ \o f]
  /\ nsent' = nsent + 1
  /\ UNCHANGED <<locked, repl_handler, repl_manager, objs, qtile_locked, now,
                 minted, pc, reof, wbuf, job, hist, cvars, client, xvars>>

FaultsNext ==
  \/ \E c \in Conns : Connect(c)
  \/ \E c \in Conns : ClientSend(c)
  \/ \E c \in Conns : ClientSendBad(c)
  \/ \E c \in Conns : ClientClose(c)
  \/ \E c \in Conns : ServerStep(c)

SpecFaults == Init /\ [][FaultsNext]_vars

----------------------------------------------------------------------------
(* The REPL manager called as test_repl_server.py calls it: a coroutine that
   awaits repl_manager.handle_message(msg_type, payload), no server between.
   The caller takes the place of the first connection: it is at "unconnected"
   when it is in no call, and hist logs each call with the time it was made
   at and what it gave back. *)

MaxMessages == 3

MaxSleeps == 2

\* "t", a second session id a caller makes up
OtherSid == PyStr(<<116>>)

\* {"code": code, "session_id": session_id}
EvalIn(code, session_id) ==
  PyDict(<< <<PyStr(CODE_KEY), PyStr(code)>>, <<PyStr(SESSION_ID_KEY), session_id>> >>)

\* the calls made: the four request types, with x=7 and x as codes, x as text
\* to complete, and a session id that is "s", "t", empty or left out
ManagerRequests ==
  { <<REPL_SESSION_START, PyDict(<<>>)>>,
    <<REPL_SESSION_END, PyDict(<< <<PyStr(SESSION_ID_KEY), ClientSid>> >>)>>,
    <<REPL_EVAL, EvalIn(<<120, 61, 55>>, ClientSid)>>,
    <<REPL_EVAL, EvalIn(<<120>>, ClientSid)>>,
    <<REPL_EVAL, EvalIn(<<120>>, OtherSid)>>,
    <<REPL_EVAL, EvalIn(<<120>>, PyStr(<<>>))>>,
    <<REPL_EVAL, PyDict(<< <<PyStr(CODE_KEY), PyStr(<<120>>)>> >>)>>,
    <<REPL_COMPLETE,
      PyDict(<< <<PyStr(TEXT_KEY), PyStr(<<120>>)>>, <<PyStr(SESSION_ID_KEY), ClientSid>> >>)>> }

\* the number of the call caller c makes next
NextCall(c) == Cardinality({ i \in 1..Len(hist[c]) : hist[c][i].ev = "call" }) + 1

\* a caller awaits handle_message(msg_type, payload): the coroutine runs up to
\* its return, its raise, or its await of the executor
ManagerCall(c) ==
  /\ pc[c] = "unconnected"
  /\ nsent < MaxMessages
  /\ nsent' = nsent + 1
  /\ \E req \in ManagerRequests :
     \E r \in {handle_message(repl_manager, objs, qtile_locked, req[1], req[2], now, minted)} :
       /\ repl_manager' = [repl_manager EXCEPT !.sessions = r.sessions]
       /\ minted' = r.minted
       /\ job' = [job EXCEPT ![c] = IF r.kind = "executor"
                                      THEN <<[ref |-> r.ref, code |-> r.code]>> ELSE <<>>]
       /\ objs' = Referenced(r.objs, r.sessions, Held(job'))
       /\ pc' = [pc EXCEPT ![c] = IF r.kind = "executor" THEN "executor" ELSE "unconnected"]
       /\ hist' = [hist EXCEPT ![c] =
                     Append(@, [ev |-> "call", n |-> NextCall(c), msg_type |-> req[1],
                                payload |-> req[2], at |-> now])
                       \o (IF r.kind = "return"
                             THEN <<[ev |-> "return", n |-> NextCall(c),
                                     response |-> r.response]>>
                           ELSE IF r.kind = "raise"
                             THEN <<[ev |-> "raise", n |-> NextCall(c), exc |-> r.exc]>>
                           ELSE <<>>)]
  /\ UNCHANGED <<locked, repl_handler, qtile_locked, now, rbuf, reof, wbuf, cvars, client, xvars>>

\* the executor is done and handle_message returns the session id and the
\* stripped output, or raises what left evaluate_code
ManagerReturn(c) ==
  /\ pc[c] = "resume"
  /\ hist' = [hist EXCEPT ![c] =
                Append(@, IF job[c][1].exc # "none"
                            THEN [ev |-> "raise", n |-> NextCall(c) - 1, exc |-> job[c][1].exc]
                            ELSE [ev |-> "return", n |-> NextCall(c) - 1,
                                  response |-> EvalResponse(objs[job[c][1].ref],
                                                            job[c][1].output)])]
  /\ job' = [job EXCEPT ![c] = <<>>]
  /\ objs' = Referenced(objs, repl_manager.sessions, Held(job'))
  /\ pc' = [pc EXCEPT ![c] = "unconnected"]
  /\ UNCHANGED <<locked, repl_handler, repl_manager, qtile_locked, now, minted,
                 rbuf, reof, wbuf, nsent, cvars, client, xvars>>

\* time passes between two calls
Sleep ==
  /\ DOMAIN objs # {}
  /\ \E d \in TickSteps :
       /\ now + d <= MaxSleeps * (SESSION_TIMEOUT + 1)
       /\ now' = now + d
  /\ UNCHANGED <<locked, repl_handler, repl_manager, objs, qtile_locked, minted,
                 pc, rbuf, reof, wbuf, job, hist, nsent, cvars, client, xvars>>

ReplNext ==
  \/ ManagerCall(KC)
  \/ WorkerRun(KC)
  \/ ManagerReturn(KC)
  \/ Enable
  \/ Disable
  \/ Sleep

SpecRepl == Init /\ [][ReplNext]_vars

----------------------------------------------------------------------------
(* The server with clients that evaluate and complete: the frames are
   REPL_EVAL with x=7, x and three raise statements as codes, REPL_COMPLETE
   with the texts "", "q", "y.z" and "x..y", and KEEPALIVE, all in session
   "s" *)

MaxEvals == 3

\* {"text": text, "session_id": "s"}
CompleteRequest(text) ==
  PyDict(<< <<PyStr(TEXT_KEY), PyStr(text)>>, <<PyStr(SESSION_ID_KEY), ClientSid>> >>)

EvalRequests ==
  { <<KEEPALIVE, PyNone>>,
    <<REPL_EVAL, EvalRequest(<<120, 61, 55>>)>>,
    <<REPL_EVAL, EvalRequest(<<120>>)>>,
    <<REPL_EVAL, EvalRequest(RAISE \o VALUE_ERROR)>>,
    <<REPL_EVAL, EvalRequest(RAISE \o SYSTEM_EXIT)>>,
    <<REPL_EVAL, EvalRequest(RAISE \o KEYBOARD_INTERRUPT)>>,
    <<REPL_COMPLETE, CompleteRequest(<<>>)>>,
    <<REPL_COMPLETE, CompleteRequest(<<113>>)>>,
    <<REPL_COMPLETE, CompleteRequest(<<121, 46, 122>>)>>,
    <<REPL_COMPLETE, CompleteRequest(<<120, 46, 46, 121>>)>> }

\* the bytes of those frames
EvalFrames == UNION { { m.bytes : m \in pack_message(f[1], f[2]) } : f \in EvalRequests }

\* a client writes one of the frames
EvalSend(c) ==
  /\ pc[c] \notin {"unconnected", "closed"}
  /\ ~reof[c]
  /\ nsent < MaxEvals
  /\ \E f \in EvalFrames : rbuf' = [rbuf EXCEPT ![c] = @ \o f]
  /\ nsent' = nsent + 1
  /\ UNCHANGED <<locked, repl_handler, repl_manager, objs, qtile_locked, now,
                 minted, pc, reof, wbuf, job, hist, cvars, client, xvars>>

EvalNext ==
  \/ \E c \in Conns : Connect(c)
  \/ \E c \in Conns : EvalSend(c)
  \/ \E c \in Conns : ServerStep(c)
  \/ \E c \in Conns : WorkerRun(c)
  \/ \E c \in Conns : ServerResume(c)
  \/ SetReplHandler
  \/ Enable

SpecEval == Init /\ [][EvalNext]_vars

----------------------------------------------------------------------------
(* get_completions(text, local_vars) called as test_repl_server.py calls it,
   on the texts and namespaces of the tests and on every short text over the
   characters d, m, "." and "(" *)

MaxText == 3

TextChars == {100, 109, 46, 40}

RECURSIVE TextsOf(_)
\* the texts of at most n characters
TextsOf(n) ==
  IF n = 0 THEN {<<>>}
  ELSE LET K(shorter) ==
             shorter \cup { Append(t, ch) : t \in { x \in shorter : Len(x) = n - 1 },
                                            ch \in TextChars }
       IN  K(TextsOf(n - 1))

\* "qti", "dummy.me", "dummy.va" and "invalid..expr" of the tests, "d.m" with
\* a line end after it, and the short texts
Texts ==
  { <<113, 116, 105>>,
    <<100, 117, 109, 109, 121, 46, 109, 101>>,
    <<100, 117, 109, 109, 121, 46, 118, 97>>,
    <<105, 110, 118, 97, 108, 105, 100, 46, 46, 101, 120, 112, 114>>,
    <<100, 46, 109, 10>> }
    \cup TextsOf(MaxText)

\* {}, {"qtile": "dummy", "qtiles": 123} and {"dummy": Dummy()} of the
\* tests, and {"d": Dummy(), "m": a function, "dm": 7}
Namespaces ==
  { <<>>,
    << << <<113, 116, 105, 108, 101>>, PyStr(<<100, 117, 109, 109, 121>>) >>,
       << <<113, 116, 105, 108, 101, 115>>, PyInt(123) >> >>,
    << << <<100, 117, 109, 109, 121>>, PyObject("Dummy") >> >>,
    << << <<100>>, PyObject("Dummy") >>,
       << <<109>>, PyObject("function") >>,
       << <<100, 109>>, PyInt(7) >> >> }

\* result = get_completions(text, local_vars)
Complete ==
  /\ \E text \in Texts : \E local_vars \in Namespaces :
       completion' = <<[text |-> text, local_vars |-> local_vars,
                        out |-> Completions(text, local_vars)]>>
  /\ UNCHANGED <<cvars, svars, client, sys, threads, evaluation, oneshot>>

CompleteNext == Complete

SpecComplete == Init /\ [][CompleteNext]_vars

----------------------------------------------------------------------------
(* evaluate_code in the threads of the default executor, one evaluation at a
   time for each connection, step by step through its with statements.
   sys.stdout and sys.stderr are the stream of the host or the StringIO of
   an evaluation; sys.written is what was written to the stream of the host
   and sys.made counts the StringIO objects made. threads[c] is <<>> or the
   evaluation of c: [at, buf, text, printed, old_stdout, old_stderr, path],
   where buf is its StringIO and text what that holds, old_stdout and
   old_stderr are the _old_targets of redirect_stdout and of redirect_stderr
   and path is how the code left the try. What an evaluation prints is
   named by its connection. *)

MaxRuns == 3

ExitPaths == {"return", "Exception", "SystemExit"}

\* run_in_executor starts evaluate_code: with io.StringIO() as stdout
Start(c) ==
  /\ threads[c] = <<>>
  /\ sys.made < MaxRuns
  /\ threads' = [threads EXCEPT ![c] = <<[at |-> "enter_stdout",
                                            buf |-> StringIO(sys.made + 1),
                                            text |-> <<>>, printed |-> FALSE,
                                            old_stdout |-> <<>>, old_stderr |-> <<>>,
                                            path |-> "none"]>>]
  /\ sys' = [sys EXCEPT !.made = @ + 1]
  /\ UNCHANGED <<cvars, svars, client, completion, evaluation, oneshot>>

\* contextlib.redirect_stdout(stdout).__enter__: sys.stdout is saved and set
EnterStdout(c) ==
  /\ threads[c] # <<>>
  /\ threads[c][1].at = "enter_stdout"
  /\ threads' = [threads EXCEPT ![c][1].at = "enter_stderr",
                                 ![c][1].old_stdout = Append(@, sys.stdout)]
  /\ sys' = [sys EXCEPT !.stdout = threads[c][1].buf]
  /\ UNCHANGED <<cvars, svars, client, completion, evaluation, oneshot>>

\* contextlib.redirect_stderr(stdout).__enter__: sys.stderr is saved and set
EnterStderr(c) ==
  /\ threads[c] # <<>>
  /\ threads[c][1].at = "enter_stderr"
  /\ threads' = [threads EXCEPT ![c][1].at = "body",
                                 ![c][1].old_stderr = Append(@, sys.stderr)]
  /\ sys' = [sys EXCEPT !.stderr = threads[c][1].buf]
  /\ UNCHANGED <<cvars, svars, client, completion, evaluation, oneshot>>

\* the evaluations whose StringIO is the stream and is open
Holders(stream) == { d \in Conns : threads[d] # <<>> /\ threads[d][1].buf = stream }

\* print(...) in the code, or print(repr(result)): the text goes to what
\* sys.stdout is when print runs. A StringIO that is closed takes nothing
\* (print raises ValueError).
PrintText(c) ==
  /\ threads[c] # <<>>
  /\ threads[c][1].at = "body"
  /\ ~threads[c][1].printed
  /\ threads' = [d \in Conns |->
                   IF threads[d] = <<>> THEN <<>>
                   ELSE <<[threads[d][1] EXCEPT
                             !.printed = IF d = c THEN TRUE ELSE @,
                             !.text = IF d \in Holders(sys.stdout) THEN Append(@, c) ELSE @]>>]
  /\ sys' = [sys EXCEPT !.written = IF sys.stdout = HostStream THEN Append(@, c) ELSE @]
  /\ UNCHANGED <<cvars, svars, client, completion, evaluation, oneshot>>

\* the try: the code returns, raises an Exception, which is caught and
\* printed, or raises SystemExit, which leaves through the with statements
Body(c) ==
  /\ threads[c] # <<>>
  /\ threads[c][1].at = "body"
  /\ \E path \in ExitPaths :
       threads' = [threads EXCEPT ![c][1].at = "exit_stderr", ![c][1].path = path]
  /\ UNCHANGED <<cvars, svars, client, completion, evaluation, oneshot, sys>>

\* redirect_stderr.__exit__: sys.stderr is set to _old_targets.pop()
ExitStderr(c) ==
  /\ threads[c] # <<>>
  /\ threads[c][1].at = "exit_stderr"
  /\ threads' = [threads EXCEPT ![c][1].at = "exit_stdout", ![c][1].old_stderr = <<>>]
  /\ sys' = [sys EXCEPT !.stderr = threads[c][1].old_stderr[1]]
  /\ UNCHANGED <<cvars, svars, client, completion, evaluation, oneshot>>

\* redirect_stdout.__exit__: sys.stdout is set to _old_targets.pop()
ExitStdout(c) ==
  /\ threads[c] # <<>>
  /\ threads[c][1].at = "exit_stdout"
  /\ threads' = [threads EXCEPT ![c][1].at = "close", ![c][1].old_stdout = <<>>]
  /\ sys' = [sys EXCEPT !.stdout = threads[c][1].old_stdout[1]]
  /\ UNCHANGED <<cvars, svars, client, completion, evaluation, oneshot>>

\* stdout.getvalue() is returned, or the exception goes on, and the StringIO
\* is closed: the evaluation is over
Finish(c) ==
  /\ threads[c] # <<>>
  /\ threads[c][1].at = "close"
  /\ threads' = [threads EXCEPT ![c] = <<>>]
  /\ UNCHANGED <<cvars, svars, client, completion, evaluation, oneshot, sys>>

StreamsNext ==
  \/ \E c \in Conns : Start(c)
  \/ \E c \in Conns : EnterStdout(c)
  \/ \E c \in Conns : EnterStderr(c)
  \/ \E c \in Conns : PrintText(c)
  \/ \E c \in Conns : Body(c)
  \/ \E c \in Conns : ExitStderr(c)
  \/ \E c \in Conns : ExitStdout(c)
  \/ \E c \in Conns : Finish(c)

SpecStreams == Init /\ [][StreamsNext]_vars

----------------------------------------------------------------------------
(* The server with clients that send CLOSE, KEEPALIVE, COMMAND and frames of
   the four types a server writes and does not handle *)

MaxOther == 3

\* the types of the enumeration that are responses
ResponseTypes == { COMMAND_RESPONSE, REPL_EVAL_RESPONSE, REPL_COMPLETE_RESPONSE, KEEPALIVE_ACK }

OtherRequests ==
  { <<COMMAND, PyList(<<PyInt(7)>>)>>,
    <<KEEPALIVE, PyNone>>,
    <<CLOSE, PyNone>>,
    <<COMMAND_RESPONSE, PyList(<<PyInt(7)>>)>>,
    <<REPL_EVAL_RESPONSE, PyDict(<<>>)>>,
    <<REPL_COMPLETE_RESPONSE, PyDict(<<>>)>>,
    <<KEEPALIVE_ACK, PyNone>> }

\* the bytes of those frames
OtherFrames == UNION { { m.bytes : m \in pack_message(f[1], f[2]) } : f \in OtherRequests }

\* a client writes one of the frames
OtherSend(c) ==
  /\ pc[c] \notin {"unconnected", "closed"}
  /\ ~reof[c]
  /\ nsent < MaxOther
  /\ \E f \in OtherFrames : rbuf' = [rbuf EXCEPT ![c] = @ \o f]
  /\ nsent' = nsent + 1
  /\ UNCHANGED <<locked, repl_handler, repl_manager, objs, qtile_locked, now,
                 minted, pc, reof, wbuf, job, hist, cvars, client, xvars>>

FramesNext ==
  \/ \E c \in Conns : Connect(c)
  \/ \E c \in Conns : OtherSend(c)
  \/ \E c \in Conns : ClientClose(c)
  \/ \E c \in Conns : ServerStep(c)
  \/ SetReplHandler

SpecFrames == Init /\ [][FramesNext]_vars

----------------------------------------------------------------------------
(* evaluate_code called on one REPLSession as test_repl_server.py calls it:
   evaluation.session is the session and evaluation.calls the calls made,
   each with the code, the namespace before it and what evaluate_code gave *)

MaxCodes == 3

\* x, y, 7, y=456 of the tests made shorter (y=4), f(), g(), h(), an unknown
\* call k(), a call of a number's name x(), a blank, "if x:" and "(x", which
\* begin a statement, and "x y", which is no Python
Codes ==
  { <<120>>, <<121>>, <<55>>, <<121, 61, 52>>,
    F_KEY \o <<40, 41>>, G_KEY \o <<40, 41>>, H_KEY \o <<40, 41>>,
    <<107, 40, 41>>, <<120, 40, 41>>,
    <<32>>,
    IF_ \o <<120, 58>>, <<40, 120>>,
    <<120, 32, 121>> }

\* result = session.evaluate_code(code)
Evaluate ==
  /\ Len(evaluation.calls) < MaxCodes
  /\ \E code \in Codes :
       LET K(r) ==
             evaluation' =
               [session |-> r.session,
                calls |-> Append(evaluation.calls,
                                 [code |-> code, before |-> evaluation.session.locals,
                                  output |-> r.output, exc |-> r.exc, tried |-> r.tried,
                                  runs |-> r.runs])]
       IN  K(evaluate_code(evaluation.session, PyStr(code), 0))
  /\ UNCHANGED <<cvars, svars, client, completion, sys, threads, oneshot>>

SessionNext == Evaluate

SpecSession == Init /\ [][SessionNext]_vars

----------------------------------------------------------------------------
(* Client, ipc.py:174-223: each call of send opens a connection of its own.
   oneshot.call is the call under way: at is "idle" between calls,
   "connected" after open_unix_connection and "await_response" after
   write_message; peer is "server" when the Server of this module listens
   at the socket (conn is the connection it accepted) and "other" when
   another process does, which writes what it likes (fed, fedeof); msg is
   the message, wrote the bytes given to the writer, taken the bytes the
   reader consumed, opened the connections opened and closed whether the
   writer was closed. oneshot.returned lists what the calls gave. *)

MaxSends == 2

MaxFeeds == 2

\* the messages sent: [7], and an object json.dumps cannot encode
OneShotMessages == { PyList(<<PyInt(7)>>), PyObject("object") }

\* what a process that is not this server may write: three whole frames, a
\* frame whose payload is no JSON, a header of another version, and the
\* start of a header
PeerFrames ==
  UNION { { m.bytes : m \in pack_message(f[1], f[2]) } :
            f \in { <<COMMAND_RESPONSE, PyList(<<PyInt(0)>>)>>,
                    <<KEEPALIVE_ACK, PyNone>>,
                    <<REPL_EVAL_RESPONSE, PyDict(<<>>)>> } }
    \cup { StructPackHeader(PROTOCOL_VERSION, COMMAND_RESPONSE, 1) \o <<123>>,
           StructPackHeader(PROTOCOL_VERSION + 1, COMMAND_RESPONSE, 0),
           <<PROTOCOL_VERSION, COMMAND_RESPONSE>> }

\* a client that returns the payload of whatever frame it reads
Expected_Any(msg_type) == TRUE

\* if msg_type != MessageType.COMMAND_RESPONSE: raise IPCError
Expected(msg_type) == msg_type = COMMAND_RESPONSE

\* what the reader of the call was given, and whether its stream has ended
OneShotIn ==
  IF oneshot.call.peer = "server" THEN wbuf[oneshot.call.conn] ELSE oneshot.call.fed

OneShotEof ==
  IF oneshot.call.peer = "server" THEN pc[oneshot.call.conn] = "closed"
  ELSE oneshot.call.fedeof

\* the call leaves async_send with outcome out: "finally" closes the writer
\* when there is one, and the server is given the end of the stream
Leave(call, out) ==
  /\ oneshot' = [oneshot EXCEPT
                   !.call = NoCall,
                   !.returned = Append(@, [n |-> oneshot.sends, out |-> out, call |-> call])]
  /\ reof' = IF call.peer = "server" THEN [reof EXCEPT ![call.conn] = TRUE] ELSE reof

\* writer.close() and wait_closed() of the finally
Finally(call) == [call EXCEPT !.closed = TRUE]

\* send is called and open_unix_connection reaches the server, which starts
\* a handler for the connection
OneShotConnect(c) ==
  /\ oneshot.call.at = "idle"
  /\ oneshot.sends < MaxSends
  /\ LoopRuns(pc)
  /\ pc[c] = "unconnected"
  /\ \A b \in 1..(c - 1) : pc[b] # "unconnected"
  /\ pc' = [pc EXCEPT ![c] = "await_frame"]
  /\ \E msg \in OneShotMessages :
       oneshot' = [oneshot EXCEPT
                     !.sends = @ + 1,
                     !.call = [NoCall EXCEPT !.at = "connected", !.peer = "server",
                                             !.conn = c, !.msg = msg, !.opened = 1]]
  /\ UNCHANGED <<locked, repl_handler, repl_manager, objs, qtile_locked, now,
                 minted, rbuf, reof, wbuf, job, hist, nsent, cvars, client,
                 completion, sys, threads, evaluation>>

\* send is called and another process listens at the socket
OneShotConnectOther ==
  /\ oneshot.call.at = "idle"
  /\ oneshot.sends < MaxSends
  /\ \E msg \in OneShotMessages :
       oneshot' = [oneshot EXCEPT
                     !.sends = @ + 1,
                     !.call = [NoCall EXCEPT !.at = "connected", !.peer = "other",
                                             !.msg = msg, !.opened = 1]]
  /\ UNCHANGED <<svars, cvars, client, completion, sys, threads, evaluation>>

\* send is called and nothing listens at the socket, or the socket is not
\* there: IPCError("Could not open ...") with no connection made; or the
\* connection is not made within three seconds
OneShotRefused ==
  /\ oneshot.call.at = "idle"
  /\ oneshot.sends < MaxSends
  /\ \E exc \in {"IPCError: Could not open", "TimeoutError"} :
       oneshot' = [oneshot EXCEPT
                     !.sends = @ + 1,
                     !.returned = Append(@, [n |-> oneshot.sends + 1,
                                             out |-> [kind |-> "raise", exc |-> exc],
                                             call |-> NoCall])]
  /\ UNCHANGED <<svars, cvars, client, completion, sys, threads, evaluation>>

\* write_message(writer, MessageType.COMMAND, msg): an encode error leaves
\* before anything is written; on a connection the peer has closed drain()
\* raises; else the frame is with the peer
OneShotWrite ==
  /\ oneshot.call.at = "connected"
  /\ \E sent \in write_message(<<>>, COMMAND, oneshot.call.msg) :
       IF ~sent.ok
         THEN /\ Leave(Finally(oneshot.call), [kind |-> "raise", exc |-> sent.exc])
              /\ UNCHANGED rbuf
       ELSE IF OneShotEof
         THEN /\ Leave(Finally([oneshot.call EXCEPT !.wrote = sent.written]),
                       [kind |-> "raise", exc |-> "ConnectionResetError"])
              /\ UNCHANGED rbuf
       ELSE /\ oneshot' = [oneshot EXCEPT !.call.wrote = sent.written,
                                          !.call.at = "await_response"]
            /\ rbuf' = IF oneshot.call.peer = "server"
                         THEN [rbuf EXCEPT ![oneshot.call.conn] = @ \o sent.written]
                         ELSE rbuf
            /\ UNCHANGED reof
  /\ UNCHANGED <<locked, repl_handler, repl_manager, objs, qtile_locked, now,
                 minted, pc, wbuf, job, hist, nsent, cvars, client,
                 completion, sys, threads, evaluation>>

\* the process at the other end writes bytes of its own
PeerFeed ==
  /\ oneshot.call.peer = "other"
  /\ ~oneshot.call.fedeof
  /\ oneshot.feeds < MaxFeeds
  /\ \E f \in PeerFrames :
       oneshot' = [oneshot EXCEPT !.call.fed = @ \o f, !.feeds = @ + 1]
  /\ UNCHANGED <<svars, cvars, client, completion, sys, threads, evaluation>>

\* the process at the other end closes the connection
PeerClose ==
  /\ oneshot.call.peer = "other"
  /\ ~oneshot.call.fedeof
  /\ oneshot' = [oneshot EXCEPT !.call.fedeof = TRUE]
  /\ UNCHANGED <<svars, cvars, client, completion, sys, threads, evaluation>>

\* read_message(reader) of the call gives a frame or raises: the payload is
\* returned when the frame is a COMMAND_RESPONSE
OneShotReceive ==
  /\ oneshot.call.at = "await_response"
  /\ \E r \in {read_message(SubSeq(OneShotIn, oneshot.call.taken + 1, Len(OneShotIn)),
                            OneShotEof)} :
       /\ r.kind # "blocked"
       /\ Leave(Finally([oneshot.call EXCEPT !.taken = Len(OneShotIn) - Len(r.rest)]),
                IF r.kind # "ok" THEN [kind |-> "raise", exc |-> r.kind]
                ELSE IF ~Expected(r.msg_type)
                  THEN [kind |-> "raise", exc |-> "IPCError: Unexpected response type"]
                ELSE [kind |-> "return", value |-> r.payload])
  /\ UNCHANGED <<locked, repl_handler, repl_manager, objs, qtile_locked, now,
                 minted, pc, rbuf, wbuf, job, hist, nsent, cvars, client,
                 completion, sys, threads, evaluation>>

\* wait_for gives up after ten seconds with no whole frame there: the read
\* is cancelled and asyncio.TimeoutError becomes IPCError
OneShotTimeout ==
  /\ oneshot.call.at = "await_response"
  /\ read_message(SubSeq(OneShotIn, oneshot.call.taken + 1, Len(OneShotIn)),
                  OneShotEof).kind = "blocked"
  /\ Leave(Finally(oneshot.call),
           [kind |-> "raise", exc |-> "IPCError: Server not responding"])
  /\ UNCHANGED <<locked, repl_handler, repl_manager, objs, qtile_locked, now,
                 minted, pc, rbuf, wbuf, job, hist, nsent, cvars, client,
                 completion, sys, threads, evaluation>>

OneShotNext ==
  \/ \E c \in Conns : OneShotConnect(c)
  \/ OneShotConnectOther
  \/ OneShotRefused
  \/ OneShotWrite
  \/ PeerFeed
  \/ PeerClose
  \/ OneShotReceive
  \/ OneShotTimeout
  \/ \E c \in Conns : ServerStep(c)
  \/ Locked
  \/ Unlocked

SpecOneShot == Init /\ [][OneShotNext]_vars

----------------------------------------------------------------------------
(* PersistentClient through connect, close and connect again, with the REPL
   off: every call of a method, of connect on a connected client and of
   close counts against MaxCalls *)

\* the calls the client makes one after the other: none while a method
\* awaits its response
CanCall == client.call = <<>> /\ nsent < MaxCalls

\* connect() with self.writer set: "return  # Already connected"
connect_again ==
  /\ CanCall
  /\ client.writer # "None"
  /\ nsent' = nsent + 1
  /\ client' = [client EXCEPT
                  !.lifecycle = Append(@, [op |-> "connect", opened |-> FALSE,
                                           out |-> [kind |-> "return", value |-> PyNone]])]
  /\ UNCHANGED <<locked, repl_handler, repl_manager, objs, qtile_locked, now,
                 minted, pc, rbuf, reof, wbuf, job, hist, cvars, xvars>>

\* a close that leaves the attributes as they are when wait_closed() raises
WaitClosedRaises_Never(lost) == FALSE

\* await self.writer.wait_closed() raises what ended the connection: the
\* error of the write to a peer that had closed
WaitClosedRaises(lost) == lost = "reset"

\* close(): nothing with no writer; else CLOSE is written as far as it can
\* be, the writer is closed and reader and writer are set to None, which an
\* exception out of wait_closed() leaves undone
close ==
  /\ CanCall
  /\ nsent' = nsent + 1
  /\ IF client.writer = "None"
       THEN /\ client' = [client EXCEPT
                            !.lifecycle = Append(@, [op |-> "close", opened |-> FALSE,
                                                     out |-> [kind |-> "return",
                                                              value |-> PyNone]])]
            /\ UNCHANGED <<rbuf, reof>>
       ELSE \E sent \in write_message(rbuf[KC], CLOSE, PyNone) :
            \E lost \in (IF client.writer = "closed" THEN {"reset"}
                         ELSE IF pc[KC] = "closed" THEN {"dropped", "reset"} ELSE {"no"}) :
              /\ rbuf' = [rbuf EXCEPT ![KC] = IF lost = "no" THEN sent.written ELSE @]
              /\ reof' = [reof EXCEPT ![KC] = TRUE]
              /\ client' =
                   IF WaitClosedRaises(lost)
                     THEN [client EXCEPT
                             !.writer = "closed",
                             !.lifecycle = Append(@, [op |-> "close", opened |-> FALSE,
                                                      out |-> [kind |-> "raise",
                                                               exc |-> "BrokenPipeError"]])]
                     ELSE [client EXCEPT
                             !.reader = "None", !.writer = "None", !.conn = 0,
                             !.lifecycle = Append(@, [op |-> "close", opened |-> FALSE,
                                                      out |-> [kind |-> "return",
                                                               value |-> PyNone]])]
  /\ UNCHANGED <<locked, repl_handler, repl_manager, objs, qtile_locked, now,
                 minted, pc, wbuf, job, hist, cvars, xvars>>

\* a method is called with no reader or no writer: IPCError("Not connected")
NotConnected ==
  /\ CanCall
  /\ client.writer = "None" \/ client.reader = "None"
  /\ nsent' = nsent + 1
  /\ \E m \in Methods :
       client' = [client EXCEPT !.returned =
                    Append(@, Outcome_Of(m, nsent + 1,
                                         [kind |-> "raise", exc |-> "IPCError: Not connected"]))]
  /\ UNCHANGED <<locked, repl_handler, repl_manager, objs, qtile_locked, now,
                 minted, pc, rbuf, reof, wbuf, job, hist, cvars, xvars>>

\* a method is called with a writer that has been closed: write_message
\* raises the error the connection ended with
RequestOnLost ==
  /\ CanCall
  /\ client.writer = "closed" /\ client.reader # "None"
  /\ nsent' = nsent + 1
  /\ \E m \in Methods :
       client' = [client EXCEPT !.returned =
                    Append(@, Outcome_Of(m, nsent + 1,
                                         [kind |-> "raise", exc |-> "BrokenPipeError"]))]
  /\ UNCHANGED <<locked, repl_handler, repl_manager, objs, qtile_locked, now,
                 minted, pc, rbuf, reof, wbuf, job, hist, cvars, xvars>>

PersistNext ==
  \/ connect
  \/ connect_again
  \/ close
  \/ NotConnected
  \/ RequestOnLost
  \/ ClientRequest
  \/ ClientReceive
  \/ ClientTimeout
  \/ \E c \in Conns : ServerStep(c)

SpecPersist == Init /\ [][PersistNext]_vars

----------------------------------------------------------------------------
(* Claims about the codec, checked under SpecCodec *)

RECURSIVE JsonNativeOrSet(_)
\* a value made of null, booleans, integers, strings, arrays, mappings with
\* string keys, and sets
JsonNativeOrSet(v) ==
  CASE v.t \in {"none", "bool", "int", "str"} -> TRUE
    [] v.t = "list" -> \A i \in 1..Len(v.items) : JsonNativeOrSet(v.items[i])
    [] v.t = "dict" ->
         \A i \in 1..Len(v.pairs) :
           v.pairs[i][1].t = "str" /\ JsonNativeOrSet(v.pairs[i][2])
    [] v.t = "set" -> \A e \in v.elems : JsonNativeOrSet(e)
    [] OTHER -> FALSE

RECURSIVE IsNormalOf(_, _)
\* w is v with every set replaced by an array of its elements
IsNormalOf(w, v) ==
  CASE v.t = "set" ->
         /\ w.t = "list"
         /\ Len(w.items) = Cardinality(v.elems)
         /\ \A e \in v.elems : \E i \in 1..Len(w.items) : IsNormalOf(w.items[i], e)
    [] v.t = "list" ->
         /\ w.t = "list"
         /\ Len(w.items) = Len(v.items)
         /\ \A i \in 1..Len(v.items) : IsNormalOf(w.items[i], v.items[i])
    [] v.t = "dict" ->
         /\ w.t = "dict"
         /\ Len(w.pairs) = Len(v.pairs)
         /\ \A i \in 1..Len(v.pairs) :
              /\ w.pairs[i][1] = v.pairs[i][1]
              /\ IsNormalOf(w.pairs[i][2], v.pairs[i][2])
    [] OTHER -> w = v

RECURSIVE HasSet(_)
HasSet(v) ==
  CASE v.t = "set" -> TRUE
    [] v.t \in {"list", "tuple"} -> \E i \in 1..Len(v.items) : HasSet(v.items[i])
    [] v.t = "dict" -> \E i \in 1..Len(v.pairs) : HasSet(v.pairs[i][2])
    [] OTHER -> FALSE

\* C1: a frame that write_message wrote for a JSON-representable value (sets
\* included) is written without error, and read_message gives back its type
\* and the value with every set turned into an array of its elements, taking
\* exactly the bytes of that frame from the stream.
C1_RoundTrip ==
  /\ (cout.op = "write" /\ JsonNativeOrSet(cout.payload)) => cout.res.ok
  /\ (cout.op = "read" /\ cout.sent # <<>> /\ JsonNativeOrSet(cout.sent[1].payload)) =>
       /\ cout.res.kind = "ok"
       /\ cout.res.msg_type = cout.sent[1].msg_type
       /\ IsNormalOf(cout.res.payload, cout.sent[1].payload)
       /\ cout.res.rest = SubSeq(cout.before, cout.sent[1].size + 1, Len(cout.before))

\* a frame holding a set of two elements inside a mapping was read back while
\* another frame waited behind it
C1_Witness ==
  /\ cout.op = "read" /\ cout.sent # <<>>
  /\ cout.sent[1].payload.t = "dict" /\ HasSet(cout.sent[1].payload)
  /\ cout.res.kind = "ok"
  /\ cout.res.payload.t = "dict" /\ Len(cout.res.payload.pairs) = 1
  /\ cout.res.payload.pairs[1][2].t = "list"
  /\ Len(cout.res.payload.pairs[1][2].items) = 2
  /\ cbuf # <<>> /\ csent # <<>>

\* the frame the last write_message appended
LastFrame == SubSeq(cbuf, Len(cout.before) + 1, Len(cbuf))

\* C2: in every frame pack_message produces, byte 0 is the protocol version,
\* byte 1 the message type, bytes 2..5 the big-endian length of the payload
\* that follows, and the frame is 6 + that length bytes long.
C2_HeaderExact ==
  (cout.op = "write" /\ cout.res.ok) =>
    LET f == LastFrame
        n == f[3] * 16777216 + f[4] * 65536 + f[5] * 256 + f[6]
    IN  /\ Len(f) >= 6
        /\ f[1] = 1
        /\ f[2] = cout.msg_type
        /\ n = Len(f) - 6
        /\ Len(f) = 6 + n

\* a frame whose payload needs two length bytes was written
C2_Witness ==
  /\ cout.op = "write" /\ cout.res.ok
  /\ Len(LastFrame) > 6 + 256

\* C3: a stream that starts with a whole header whose version byte is not
\* 0x01 is refused with the unsupported-version error, whatever the type
\* byte, the length field and the bytes behind the header are; the reader
\* has taken the six header bytes only.
C3_VersionGate ==
  (cout.op = "read" /\ Len(cout.before) >= 6 /\ cout.before[1] # 1) =>
    /\ cout.res.kind = "IPCError"
    /\ cout.res.msg = "Unsupported protocol version"
    /\ cout.res.rest = SubSeq(cout.before, 7, Len(cout.before))

\* a header with a wrong version, an unknown type and a length field that
\* promises more payload than the stream holds was refused
C3_Witness ==
  /\ cout.op = "read" /\ Len(cout.before) = 7
  /\ cout.before[1] = 153 /\ cout.before[2] = 153 /\ cout.before[6] = 2
  /\ cout.res.kind = "IPCError"

\* the eleven type bytes of the protocol
ElevenTypes == {1, 2, 16, 17, 18, 19, 20, 21, 240, 241, 255}

\* C4: a whole header with version 0x01 and a type byte that is none of the
\* eleven is refused with the unknown-message-type error, whatever the
\* length field and the payload are, and no payload byte is taken.
C4_TypeGate ==
  (cout.op = "read" /\ Len(cout.before) >= 6 /\ cout.before[1] = 1
     /\ cout.before[2] \notin ElevenTypes) =>
    /\ cout.res.kind = "IPCError"
    /\ cout.res.msg = "Unknown message type"
    /\ cout.res.rest = SubSeq(cout.before, 7, Len(cout.before))

\* a header with type byte 22 and length 2 followed by two bytes was refused
\* and the two bytes are still in the reader
C4_Witness ==
  /\ cout.op = "read" /\ Len(cout.before) = 8
  /\ cout.before[1] = 1 /\ cout.before[2] = 22 /\ cout.before[6] = 2
  /\ cout.res.kind = "IPCError" /\ Len(cbuf) = 2


RECURSIVE HasNonFinite(_)
\* the value holds a float read from one of the literals NaN, Infinity and
\* -Infinity
HasNonFinite(v) ==
  CASE v.t = "float" -> v.lit[1] \in {78, 73} \/ At(v.lit, 2) = 73
    [] v.t = "list" -> \E i \in 1..Len(v.items) : HasNonFinite(v.items[i])
    [] v.t = "dict" -> \E i \in 1..Len(v.pairs) : HasNonFinite(v.pairs[i][2])
    [] OTHER -> FALSE

\* a JSON text as RFC 8259 defines it: what json.loads accepts, less the three
\* literals the RFC does not have
ValidJson(text) == JsonLoads(text).ok /\ ~HasNonFinite(JsonLoads(text).val)

\* what the last read gave: the error kind and message, or (type, payload)
ReadOutcome ==
  IF cout.res.kind = "ok" THEN <<"ok", cout.res.msg_type, cout.res.payload>>
  ELSE IF cout.res.kind = "IncompleteReadError" THEN <<"eof">>
  ELSE <<cout.res.kind, cout.res.msg>>

\* the outcome the classification gives a closed stream b, payloads judged by
\* json.loads (rfc = FALSE) or by the RFC grammar (rfc = TRUE)
Classified(b, rfc) ==
  IF Len(b) = 0 THEN <<"eof">>
  ELSE IF Len(b) < 6 THEN <<"IPCError", "Incomplete message header">>
  ELSE IF b[1] # 1 THEN <<"IPCError", "Unsupported protocol version">>
  ELSE IF b[2] \notin ElevenTypes THEN <<"IPCError", "Unknown message type">>
  ELSE LET n == b[3] * 16777216 + b[4] * 65536 + b[5] * 256 + b[6]
           body == SubSeq(b, 7, 6 + n)
           text == Utf8Decode(body)
       IN  IF n = 0 THEN <<"ok", b[2], PyNone>>
           ELSE IF Len(b) - 6 < n THEN <<"IPCError", "Incomplete message payload">>
           ELSE IF ~text.ok THEN <<"IPCError", "Unable to decode message payload">>
           ELSE IF (IF rfc THEN ~ValidJson(text.text) ELSE ~JsonLoads(text.text).ok)
             THEN <<"IPCError", "Unable to decode message payload">>
           ELSE <<"ok", b[2], JsonLoads(text.text).val>>

RECURSIVE OffendingTypes(_)
\* the types in a payload that json.dumps cannot write, _json_encoder's
\* conversion of sets applied
OffendingTypes(v) ==
  CASE v.t = "object" -> {v.cls}
    [] v.t \in {"list", "tuple"} -> UNION { OffendingTypes(v.items[i]) : i \in 1..Len(v.items) }
    [] v.t = "dict" ->
         UNION { (IF v.pairs[i][1].t \in {"str", "int", "bool", "none"}
                    THEN {} ELSE {TypeName(v.pairs[i][1])})
                   \cup OffendingTypes(v.pairs[i][2]) : i \in 1..Len(v.pairs) }
    [] v.t = "set" -> UNION { OffendingTypes(e) : e \in v.elems }
    [] OTHER -> {}

\* C6: write_message on a payload that holds a value json cannot write and
\* that is no set raises an error that names the type of such a value, and
\* the stream holds exactly the bytes it held before.
C6_EncodeErrorWritesNothing ==
  (cout.op = "write" /\ OffendingTypes(cout.payload) # {}) =>
    /\ ~cout.res.ok
    /\ cout.res.exc \in {"ValueError", "TypeError"}
    /\ cout.res.type \in OffendingTypes(cout.payload)
    /\ cbuf = cout.before

\* a write failed on a frozenset behind a frame that is still in the stream
C6_Witness ==
  /\ cout.op = "write" /\ ~cout.res.ok
  /\ cout.res.type = "frozenset"
  /\ cout.before # <<>> /\ csent # <<>>
  /\ cbuf = cout.before

----------------------------------------------------------------------------
(* Claims about the server, checked under Spec *)

\* what the log of c gains in a step
Gained(c) == SubSeq(hist'[c], Len(hist[c]) + 1, Len(hist'[c]))

IsWrite(e) == e.ev = "write"

RECURSIVE Decoded(_)
\* a response as the peer decodes it: tuples arrive as arrays
Decoded(v) ==
  CASE v.t \in {"list", "tuple"} -> PyList([i \in 1..Len(v.items) |-> Decoded(v.items[i])])
    [] v.t = "dict" ->
         PyDict([i \in 1..Len(v.pairs) |-> <<v.pairs[i][1], Decoded(v.pairs[i][2])>>])
    [] OTHER -> v

Frame(msg_type, payload) == [msg_type |-> msg_type, payload |-> payload]

RECURSIVE Frames(_)
\* the frames a peer reads from the bytes b of a closed stream; a frame of type
\* 0 stands for bytes that are no frame
Frames(b) ==
  LET K(r) == IF r.kind = "ok" THEN <<Frame(r.msg_type, r.payload)>> \o Frames(r.rest)
              ELSE IF r.kind = "IncompleteReadError" THEN <<>>
              ELSE <<Frame(0, PyNone)>>
  IN  K(read_message(b, TRUE))

\* the step of c read a frame of type t
Reads(c, t) == Gained(c) # <<>> /\ Gained(c)[1].ev = "read" /\ Gained(c)[1].msg_type = t

\* the step of c called the command handler
Calls(c) == \E i \in 1..Len(Gained(c)) : Gained(c)[i].ev = "call"

\* the step of c answered the frame it read with one frame (msg_type, payload)
\* and waits for the next frame
Answers(c, msg_type, payload) ==
  /\ Len(Gained(c)) = 2
  /\ Gained(c)[2] = [ev |-> "write", n |-> Gained(c)[1].n, msg_type |-> msg_type,
                     payload |-> payload]
  /\ Frames(wbuf'[c]) = Frames(wbuf[c]) \o <<Frame(msg_type, Decoded(payload))>>
  /\ pc'[c] = "await_frame"

\* the client had closed its end, the write failed and the handler closed
Dropped(c) ==
  /\ reof[c]
  /\ Len(Gained(c)) = 2 /\ Gained(c)[2].ev = "close"
  /\ wbuf'[c] = wbuf[c]
  /\ pc'[c] = "closed"

\* C7: on one connection a frame is read only when every frame read before
\* has its response written or was found to need none; a frame gets at most
\* one response; and the bytes on the connection are the responses in the
\* order of the requests that caused them.
C7_Sequential ==
  \A c \in Conns :
    LET h == hist[c]
        w == SelectSeq(hist[c], IsWrite)
    IN  /\ \A i \in 1..Len(h) : \A j \in (i + 1)..Len(h) :
             (h[i].ev = "read" /\ h[j].ev = "read") =>
               \E k \in (i + 1)..(j - 1) :
                 h[k].ev \in {"write", "skip"} /\ h[k].n = h[i].n
        /\ \A i \in 1..Len(h) :
             h[i].ev = "write" => \E j \in 1..(i - 1) : h[j].ev = "read" /\ h[j].n = h[i].n
        /\ \A i \in 1..Len(w) : \A j \in (i + 1)..Len(w) : w[i].n < w[j].n
        /\ Frames(wbuf[c]) =
             [i \in 1..Len(w) |-> Frame(w[i].msg_type, Decoded(w[i].payload))]

\* a REPL_EVAL went through the executor while a KEEPALIVE waited behind it,
\* and both were answered in that order
C7_Witness ==
  \E c \in Conns :
    /\ Len(hist[c]) = 4
    /\ hist[c][1].ev = "read" /\ hist[c][1].msg_type = REPL_EVAL
    /\ hist[c][2].ev = "write" /\ hist[c][2].msg_type = REPL_EVAL_RESPONSE
    /\ Len(hist[c][2].payload.pairs) = 2
    /\ hist[c][2].payload.pairs[2][1] = PyStr(OUTPUT_KEY)
    /\ hist[c][3].ev = "read" /\ hist[c][3].msg_type = KEEPALIVE
    /\ hist[c][4].ev = "write" /\ hist[c][4].msg_type = KEEPALIVE_ACK
    /\ Len(Frames(wbuf[c])) = 2

\* (1, {"error": "Session locked."})
LockedError == PyTuple(<<PyInt(1), ErrorDict(SESSION_LOCKED)>>)

\* the step of c refused the COMMAND it read
Refused(c) ==
  /\ ~Calls(c)
  /\ Answers(c, COMMAND_RESPONSE, LockedError) \/ Dropped(c)

\* C8: with the lock gate set, a COMMAND is answered with a COMMAND_RESPONSE
\* that carries (1, {"error": "Session locked."}) and the command handler is
\* not called for it; a KEEPALIVE is answered with KEEPALIVE_ACK. (A client
\* that has closed its end may get no answer.)
C8_LockGate ==
  [][\A c \in Conns :
       locked =>
         /\ Reads(c, COMMAND) => Refused(c)
         /\ Reads(c, KEEPALIVE) =>
              ~Calls(c) /\ (Answers(c, KEEPALIVE_ACK, PyNone) \/ Dropped(c))]_vars

\* with the gate set, a COMMAND was refused and the KEEPALIVE behind it
\* acknowledged
C8_Witness ==
  \E c \in Conns :
    /\ locked
    /\ hist[c] = << [ev |-> "read", n |-> 1, msg_type |-> COMMAND],
                    [ev |-> "write", n |-> 1, msg_type |-> COMMAND_RESPONSE,
                     payload |-> LockedError],
                    [ev |-> "read", n |-> 2, msg_type |-> KEEPALIVE],
                    [ev |-> "write", n |-> 2, msg_type |-> KEEPALIVE_ACK,
                     payload |-> PyNone] >>
    /\ Frames(wbuf[c]) = << Frame(COMMAND_RESPONSE, Decoded(LockedError)),
                            Frame(KEEPALIVE_ACK, PyNone) >>

\* the step of c read a REPL request
ReadsRepl(c) == \E t \in ReplTypes : Reads(c, t)

\* the step of c did with the frame it read what the server does with that
\* frame when no lock is set: the same response or none, the same place to go
\* on from, the same sessions
AsUnlocked(c) ==
  LET K(r) ==
        \E d \in Dispatch([ServerState EXCEPT !.locked = FALSE, !.host_locked = FALSE],
                          r.msg_type, r.payload, HandlerOutcomes) :
        \E w \in Written(c, d.reply) :
          /\ pc'[c] = IF w.ok THEN d.next ELSE "closed"
          /\ wbuf'[c] = w.written
          /\ repl_manager'.sessions = d.sessions
          /\ objs' = Referenced(d.objs, d.sessions, Held(job'))
  IN  K(read_message(rbuf[c], reof[c]))

\* C9, as the claim has it: while the host is locked, a REPL request and a
\* CLOSE are handled exactly as when it is unlocked (same response, same
\* effect on the session map), and a COMMAND is refused.
C9_LockedAsUnlocked ==
  [][\A c \in Conns :
       (locked /\ qtile_locked) =>
         /\ (ReadsRepl(c) \/ Reads(c, CLOSE)) => AsUnlocked(c)
         /\ Reads(c, COMMAND) => Refused(c)]_vars

\* the REPL request the step of c read went to a manager that is enabled
Delegated(c) ==
  ReadsRepl(c) /\ repl_handler = "handle_message" /\ repl_manager.enabled

\* the step of c gave the manager's locked-session error for the REPL request
\* it read: on the response type of the request, nothing for REPL_SESSION_END
LockedOut(c) ==
  LET t == Gained(c)[1].msg_type
      error == ErrorDict(SESSION_IS_LOCKED)
  IN  \/ t \in {REPL_EVAL, REPL_SESSION_START} /\ Answers(c, REPL_EVAL_RESPONSE, error)
      \/ t = REPL_COMPLETE /\ Answers(c, REPL_COMPLETE_RESPONSE, error)
      \/ /\ t = REPL_SESSION_END
         /\ Gained(c) = << Gained(c)[1], [ev |-> "skip", n |-> Gained(c)[1].n] >>
         /\ wbuf'[c] = wbuf[c] /\ pc'[c] = "await_frame"
      \/ t # REPL_SESSION_END /\ Dropped(c)

\* C9, amended: while the host is locked, a CLOSE is handled as when it is
\* unlocked and so is a REPL request that reaches no enabled manager; a REPL
\* request that reaches the enabled manager is answered with
\* {"error": "Session is locked."} and no session is made, touched, evicted or
\* removed for it; a COMMAND is refused.
C9_LockedHandling ==
  [][\A c \in Conns :
       (locked /\ qtile_locked) =>
         /\ Reads(c, CLOSE) => AsUnlocked(c)
         /\ (ReadsRepl(c) /\ ~Delegated(c)) => AsUnlocked(c)
         /\ Delegated(c) =>
              /\ LockedOut(c)
              /\ repl_manager' = repl_manager /\ objs' = objs /\ job' = job
         /\ Reads(c, COMMAND) => Refused(c)]_vars

\* a session was started, the host was locked, and the REPL_EVAL that followed
\* got the locked-session error while the session stayed as it was
C9_Witness ==
  \E c \in Conns :
    /\ locked /\ qtile_locked
    /\ Len(hist[c]) = 4
    /\ hist[c][1].ev = "read" /\ hist[c][1].msg_type = REPL_SESSION_START
    /\ hist[c][2].ev = "write" /\ hist[c][2].payload.pairs[1][1] = PyStr(SESSION_ID_KEY)
    /\ hist[c][3].ev = "read" /\ hist[c][3].msg_type = REPL_EVAL
    /\ hist[c][4] = [ev |-> "write", n |-> 2, msg_type |-> REPL_EVAL_RESPONSE,
                     payload |-> ErrorDict(SESSION_IS_LOCKED)]
    /\ DOMAIN repl_manager.sessions = {PyStr(Uuid(1))}

\* the step of c called the command handler once with the payload of the
\* COMMAND it read, and answered with what the handler returned or, the
\* handler having raised, closed
Served(c) ==
  /\ Len(Gained(c)) = 3
  /\ Gained(c)[2].ev = "call" /\ Gained(c)[2].n = Gained(c)[1].n
  /\ Gained(c)[2].payload = read_message(rbuf[c], reof[c]).payload
  /\ Gained(c)[3].n = Gained(c)[1].n
  /\ Gained(c)[3].ev \in {"write", "close"}
  /\ Gained(c)[3].ev = "write" => Gained(c)[3].msg_type = COMMAND_RESPONSE

\* C10: the gate is one flag for all connections and starts clear; a "locked"
\* event leaves it set and an "unlocked" event leaves it clear, whatever it
\* was before; nothing else changes it; and a COMMAND, on whichever connection
\* it arrives, is refused when the gate is set at its dispatch and served when
\* it is clear then.
C10_GateEvents ==
  /\ ~locked
  /\ [][/\ Locked => locked'
        /\ Unlocked => ~locked'
        /\ locked' # locked => Locked \/ Unlocked
        /\ \A c \in Conns :
             Reads(c, COMMAND) => IF locked THEN Refused(c) ELSE Served(c)]_vars

\* the gate was set and cleared: a COMMAND was refused on the first connection
\* and one was served, with the handler's answer, on the second
C10_Witness ==
  /\ ~locked
  /\ Len(hist[1]) = 2 /\ hist[1][2].ev = "write" /\ hist[1][2].payload = LockedError
  /\ Len(hist[2]) = 3 /\ hist[2][1].msg_type = COMMAND /\ hist[2][2].ev = "call"
  /\ hist[2][3].ev = "write"
  /\ hist[2][3].payload = PyTuple(<<PyInt(0), PyStr(<<111, 107>>)>>)

IsCall(e) == e.ev = "call"

\* [7], the payload of the COMMAND frames the clients send
CommandPayload == PyList(<<PyInt(7)>>)

\* C11: for every COMMAND read while the gate is clear the command handler is
\* called exactly once, with the payload the frame decodes to, and the value
\* it returns is, as it is, the payload of the one COMMAND_RESPONSE written
\* for the frame (on the wire its tuples are arrays). (A client that has
\* closed its end may get no answer.)
C11_HandlerVerbatim ==
  [][\A c \in Conns :
       (~locked /\ Reads(c, COMMAND)) =>
         LET calls == SelectSeq(Gained(c), IsCall)
             writes == SelectSeq(Gained(c), IsWrite)
         IN  /\ Len(calls) = 1
             /\ calls[1].payload = CommandPayload
             /\ calls[1].payload = read_message(rbuf[c], reof[c]).payload
             /\ Len(writes) <= 1
             /\ calls[1].out.kind = "return" =>
                  \/ /\ writes = << [ev |-> "write", n |-> Gained(c)[1].n,
                                     msg_type |-> COMMAND_RESPONSE,
                                     payload |-> calls[1].out.value] >>
                     /\ Frames(wbuf'[c]) =
                          Frames(wbuf[c])
                            \o <<Frame(COMMAND_RESPONSE, Decoded(calls[1].out.value))>>
                     /\ pc'[c] = "await_frame"
                  \/ /\ reof[c] /\ writes = <<>>
                     /\ wbuf'[c] = wbuf[c] /\ pc'[c] = "closed"]_vars

\* the handler was called with [7] and the (0, "ok") it returned is on the
\* wire as [0, "ok"]
C11_Witness ==
  \E c \in Conns :
    /\ Len(hist[c]) = 3
    /\ hist[c][1].ev = "read" /\ hist[c][1].msg_type = COMMAND
    /\ hist[c][2].ev = "call" /\ hist[c][2].payload = CommandPayload
    /\ hist[c][2].out.kind = "return"
    /\ hist[c][3].ev = "write" /\ hist[c][3].payload = hist[c][2].out.value
    /\ Frames(wbuf[c]) =
         << Frame(COMMAND_RESPONSE, PyList(<<PyInt(0), PyStr(<<111, 107>>)>>)) >>

\* the step of c called the command handler and the handler raised
HandlerRaised(c) ==
  \E i \in 1..Len(Gained(c)) : Gained(c)[i].ev = "call" /\ Gained(c)[i].out.kind = "raise"

\* C12: when the command handler raises while it serves a COMMAND, the error
\* goes to the client in a COMMAND_RESPONSE and the handler of the connection
\* goes on to the next frame.
C12_HandlerErrorReturned ==
  [][\A c \in Conns :
       (Reads(c, COMMAND) /\ HandlerRaised(c) /\ ~reof[c]) =>
         /\ \E i \in 1..Len(Gained(c)) :
              Gained(c)[i].ev = "write" /\ Gained(c)[i].msg_type = COMMAND_RESPONSE
         /\ pc'[c] = "await_frame"]_vars

\* the step of c wrote nothing and waits for the next frame
Silent(c) ==
  /\ Gained(c) = << Gained(c)[1], [ev |-> "skip", n |-> Gained(c)[1].n] >>
  /\ wbuf'[c] = wbuf[c]
  /\ pc'[c] = "await_frame"

\* C13: with no REPL handler installed, REPL_EVAL and REPL_SESSION_START get
\* the "REPL not enabled" error on REPL_EVAL_RESPONSE, REPL_COMPLETE gets it
\* on REPL_COMPLETE_RESPONSE, REPL_SESSION_END gets no frame, and the handler
\* of the connection waits for the next frame in all four cases.
C13_NoHandler ==
  [][\A c \in Conns :
       (repl_handler = "None" /\ ~reof[c]) =>
         /\ Reads(c, REPL_EVAL) =>
              Answers(c, REPL_EVAL_RESPONSE, ErrorDict(REPL_NOT_ENABLED))
         /\ Reads(c, REPL_COMPLETE) =>
              Answers(c, REPL_COMPLETE_RESPONSE, ErrorDict(REPL_NOT_ENABLED))
         /\ Reads(c, REPL_SESSION_START) =>
              Answers(c, REPL_EVAL_RESPONSE, ErrorDict(REPL_NOT_ENABLED))
         /\ Reads(c, REPL_SESSION_END) => Silent(c)]_vars

----------------------------------------------------------------------------
(* Claims about PersistentClient, checked under SpecClient *)

\* what call e of the client gave back is made of the response the server
\* wrote for the request of that call
OwnResponse(e) ==
  /\ e.out.kind = "return"
  /\ \E j \in 1..Len(hist[KC]) :
       /\ hist[KC][j].ev = "write" /\ hist[KC][j].n = e.n
       /\ e.out = Result(e.op, Decoded(hist[KC][j].payload))

\* call e read a frame
Answered(e) ==
  /\ e.op # "end_repl_session"
  /\ e.out.kind = "return" \/ e.out.exc = "IPCError: Unexpected response type"

\* C14: when a call of the client has timed out, the next call on the client
\* that gets a frame returns the server's response to its own request, never
\* the late response to the request that timed out.
C14_TimeoutAbandons ==
  \A i \in 2..Len(client.returned) :
    LET before == client.returned[i - 1]
        e == client.returned[i]
    IN  (before.out.kind = "raise" /\ before.out.exc = "TimeoutError" /\ Answered(e))
          => OwnResponse(e)

----------------------------------------------------------------------------
(* Claims about bytes that are no frame, checked under SpecFaults *)

\* the handler of c took a turn of its loop and read_message raised in it
ReadFailed(c) ==
  /\ pc[c] = "await_frame"
  /\ hist'[c] # hist[c]
  /\ read_message(rbuf[c], reof[c]).kind # "ok"

\* C15: when read_message raises on a connection (bad version, unknown type,
\* header or payload cut short by the end of the stream, undecodable payload,
\* or the end of the stream between frames), the handler of that connection
\* goes to closed at once and no frame is written for it; every other
\* connection and the server's own state stay as they were, so a frame on
\* another open connection is served as before; and as long as a connection
\* is left to make, the server accepts one.
C15_DecodeFailureCloses ==
  /\ []((\E d \in Conns : pc[d] = "unconnected") => \E d \in Conns : ENABLED Connect(d))
  /\ [][\A c \in Conns :
          ReadFailed(c) =>
            /\ pc'[c] = "closed"
            /\ Gained(c) = << [ev |-> "close", n |-> 0] >>
            /\ wbuf'[c] = wbuf[c]
            /\ \A d \in Conns \ {c} :
                 /\ pc'[d] = pc[d] /\ rbuf'[d] = rbuf[d] /\ wbuf'[d] = wbuf[d]
                 /\ hist'[d] = hist[d] /\ reof'[d] = reof[d]
            /\ UNCHANGED <<locked, repl_handler, repl_manager, objs>>]_vars

\* the first connection was closed for a header of another version, with
\* nothing written to it, and the second, accepted since, had its KEEPALIVE
\* acknowledged
C15_Witness ==
  /\ pc[1] = "closed" /\ ~reof[1]
  /\ hist[1] = << [ev |-> "close", n |-> 0] >>
  /\ wbuf[1] = <<>>
  /\ hist[2] = << [ev |-> "read", n |-> 1, msg_type |-> KEEPALIVE],
                  [ev |-> "write", n |-> 1, msg_type |-> KEEPALIVE_ACK, payload |-> PyNone] >>
  /\ Frames(wbuf[2]) = << Frame(KEEPALIVE_ACK, PyNone) >>

----------------------------------------------------------------------------
(* Claims about the REPL manager, checked under SpecRepl *)

\* the step is a call of handle_message
CallStep == Gained(KC) # <<>> /\ Gained(KC)[1].ev = "call"

\* the session id a call hands to get_or_create_session
Asked(call) ==
  IF call.msg_type = REPL_SESSION_START THEN PyNone
  ELSE DictGet(call.payload, SESSION_ID_KEY, PyNone)

\* the step is a call that looks a session up
LookupStep ==
  /\ CallStep
  /\ repl_manager.enabled
  /\ Gained(KC)[1].msg_type \in {REPL_SESSION_START, REPL_EVAL, REPL_COMPLETE}

\* the session is older than the timeout allows
Expired(sid) == now - objs[repl_manager.sessions[sid]].last_active > SESSION_TIMEOUT

\* the step removes the session or evicts it
Ends(sid) ==
  \/ Disable
  \/ LookupStep /\ Expired(sid)
  \/ /\ CallStep /\ repl_manager.enabled
     /\ Gained(KC)[1].msg_type = REPL_SESSION_END
     /\ Asked(Gained(KC)[1]) = sid

\* the step is the executor running the evaluation the caller awaits
Ran == pc[KC] = "executor" /\ pc'[KC] = "resume"

\* the names a session starts with
DefaultNames == {BUILTINS_KEY} \cup { repl_manager.default_locals[i][1] :
                                       i \in 1..Len(repl_manager.default_locals) }

\* C16: an evaluation of name=number binds the name in the session it runs
\* in; an evaluation of a name prints the value the name is bound to in its
\* session and a NameError when it is bound to none; a session that is not
\* removed or evicted stays the session of its id and keeps every binding; no
\* evaluation changes the namespace of another session; and a session starts
\* with the default names only.
C16_SessionBindings ==
  [][/\ Ran =>
          LET ref == job[KC][1].ref
              code == job[KC][1].code.s
              k == AssignAt(code)
              at == Lookup(objs[ref].locals, code)
          IN  /\ (k # 0 /\ IsNumber(SubSeq(code, k + 1, Len(code)))) =>
                   LET to == Lookup(objs'[ref].locals, SubSeq(code, 1, k - 1))
                   IN  /\ to # 0
                       /\ Repr(objs'[ref].locals[to][2]) = SubSeq(code, k + 1, Len(code))
              /\ (IsIdent(code) /\ at # 0) =>
                   Strip(job'[KC][1].output) = Repr(objs[ref].locals[at][2])
              /\ (IsIdent(code) /\ at = 0) =>
                   Strip(job'[KC][1].output) = NAME_ERROR_HEAD \o code \o NAME_ERROR_TAIL
     /\ \A sid \in DOMAIN repl_manager.sessions :
          ~Ends(sid) =>
            /\ sid \in DOMAIN repl_manager'.sessions
            /\ repl_manager'.sessions[sid] = repl_manager.sessions[sid]
     /\ \A r \in DOMAIN objs \cap DOMAIN objs' :
          /\ \A i \in 1..Len(objs[r].locals) :
               Lookup(objs'[r].locals, objs[r].locals[i][1]) # 0
          /\ objs'[r].locals # objs[r].locals => Ran /\ r = job[KC][1].ref
     /\ \A r \in DOMAIN objs' \ DOMAIN objs :
          \A i \in 1..Len(objs'[r].locals) : objs'[r].locals[i][1] \in DefaultNames]_vars

\* the output of the response call n got
OutputOf(n) ==
  LET at == { i \in 1..Len(hist[KC]) : hist[KC][i].ev = "return" /\ hist[KC][i].n = n }
  IN  IF at = {} THEN PyNone
      ELSE DictGet(hist[KC][CHOOSE i \in at : TRUE].response, OUTPUT_KEY, PyNone)

\* x=7 was evaluated in session "s"; then x gave 7 in "s" and a NameError in
\* "t", a session made after the binding
C16_Witness ==
  /\ Len(hist[KC]) = 6
  /\ hist[KC][1].payload = EvalIn(<<120, 61, 55>>, ClientSid)
  /\ hist[KC][3].payload = EvalIn(<<120>>, ClientSid)
  /\ hist[KC][5].payload = EvalIn(<<120>>, OtherSid)
  /\ OutputOf(1) = PyStr(<<>>)
  /\ OutputOf(2) = PyStr(<<55>>)
  /\ OutputOf(3) = PyStr(NAME_ERROR_HEAD \o <<120>> \o NAME_ERROR_TAIL)

\* C17: a lookup removes from the map every session whose last activity is
\* more than 3600 s back, so that its id, if it is asked for again, names a
\* session with the default names only; a lookup keeps, as it is, every
\* session whose last activity is 3600 s back or less; an evaluation sets
\* last_active of its session to the time it runs at, and so does a
\* completion.
C17_IdleEviction ==
  [][/\ LookupStep =>
          \A sid \in DOMAIN repl_manager.sessions :
            LET old == repl_manager.sessions[sid]
            IN  IF Expired(sid)
                  THEN /\ \A t \in DOMAIN repl_manager'.sessions :
                            repl_manager'.sessions[t] # old
                       /\ sid \in DOMAIN repl_manager'.sessions =>
                            \A i \in 1..Len(objs'[repl_manager'.sessions[sid]].locals) :
                              objs'[repl_manager'.sessions[sid]].locals[i][1] \in DefaultNames
                  ELSE /\ sid \in DOMAIN repl_manager'.sessions
                       /\ repl_manager'.sessions[sid] = old
                       /\ objs'[old].locals = objs[old].locals
     /\ Ran => objs'[job[KC][1].ref].last_active = now
     /\ (LookupStep /\ Gained(KC)[1].msg_type = REPL_COMPLETE) =>
          objs'[repl_manager'.sessions[Asked(Gained(KC)[1])]].last_active = now]_vars

\* the time call n was made at
TimeOf(n) ==
  LET at == { i \in 1..Len(hist[KC]) : hist[KC][i].ev = "call" /\ hist[KC][i].n = n }
  IN  hist[KC][CHOOSE i \in at : TRUE].at

\* x=7 in "s" at 0; x in "s" 3600 s later gave 7; x in "s" another 3601 s
\* later gave a NameError
C17_Witness ==
  /\ Len(hist[KC]) = 6
  /\ hist[KC][1].payload = EvalIn(<<120, 61, 55>>, ClientSid)
  /\ hist[KC][3].payload = EvalIn(<<120>>, ClientSid)
  /\ hist[KC][5].payload = EvalIn(<<120>>, ClientSid)
  /\ TimeOf(1) = 0
  /\ TimeOf(2) = SESSION_TIMEOUT
  /\ TimeOf(3) = 2 * SESSION_TIMEOUT + 1
  /\ OutputOf(2) = PyStr(<<55>>)
  /\ OutputOf(3) = PyStr(NAME_ERROR_HEAD \o <<120>> \o NAME_ERROR_TAIL)

\* the session the lookup of the step gave to its caller is the object r
Given(r) ==
  IF Gained(KC)[1].msg_type = REPL_EVAL
    THEN job'[KC] # <<>> /\ job'[KC][1].ref = r
    ELSE /\ Len(Gained(KC)) = 2 /\ Gained(KC)[2].ev = "return"
         /\ DictGet(Gained(KC)[2].response, SESSION_ID_KEY, PyNone) = objs'[r].session_id

\* the step leaves the sessions other than sid, the expired ones aside, as
\* they were
OthersKept(sid) ==
  \A t \in DOMAIN repl_manager.sessions \ {sid} :
    ~Expired(t) =>
      /\ t \in DOMAIN repl_manager'.sessions
      /\ repl_manager'.sessions[t] = repl_manager.sessions[t]
      /\ objs'[repl_manager.sessions[t]] = objs[repl_manager.sessions[t]]

\* the lookup of the step is for an id that is in the map and not expired
Known(sid) ==
  Truthy(sid) /\ sid \in DOMAIN repl_manager.sessions /\ ~Expired(sid)

\* C18: a lookup with an id that is in the map and not expired gives that
\* very session, makes no new session, leaves the other sessions as they
\* were, and sets last_active of the session to the current time.
C18_LookupTouches ==
  [][LookupStep =>
       LET sid == Asked(Gained(KC)[1])
       IN  Known(sid) =>
             /\ repl_manager'.sessions[sid] = repl_manager.sessions[sid]
             /\ Given(repl_manager.sessions[sid])
             /\ DOMAIN repl_manager'.sessions \subseteq DOMAIN repl_manager.sessions
             /\ DOMAIN objs' \subseteq DOMAIN objs
             /\ OthersKept(sid)
             /\ objs'[repl_manager.sessions[sid]].last_active = now]_vars

\* the lookup of the step made one session, under new_id: an object that was
\* not there before, with the default names only, stored in the map under the
\* id it carries and given to the caller, the other sessions staying as they
\* were
Created(new_id) ==
  /\ new_id \in DOMAIN repl_manager'.sessions
  /\ DOMAIN objs' \ DOMAIN objs = {repl_manager'.sessions[new_id]}
  /\ LET r == repl_manager'.sessions[new_id]
     IN  /\ objs'[r].session_id = new_id
         /\ \A i \in 1..Len(objs'[r].locals) : objs'[r].locals[i][1] \in DefaultNames
         /\ \A name \in DefaultNames : Lookup(objs'[r].locals, name) # 0
         /\ Given(r)
  /\ OthersKept(new_id)

\* the id is one the step drew: none of the map, and not the one asked for
Fresh(new_id, sid) ==
  /\ new_id \notin DOMAIN repl_manager.sessions
  /\ new_id # sid

\* C19, as the claim has it: a lookup with no id, or with an id that is not
\* in the map, makes a session under a fresh id, one that is in the map for
\* no session and is not the id asked for.
C19_MintsFresh ==
  [][LookupStep =>
       LET sid == Asked(Gained(KC)[1])
       IN  ~Known(sid) =>
             \E new_id \in DOMAIN repl_manager'.sessions :
               Created(new_id) /\ Fresh(new_id, sid)]_vars

\* C19, amended: a lookup with no id (or an empty one) makes a session under
\* a fresh id; a lookup with an id that is given and, the expired sessions
\* swept, not in the map makes a session under that very id; either way the
\* session has the default names only, is stored and returned, and the other
\* sessions, the expired ones aside, stay as they were.
C19_CreatesSession ==
  [][LookupStep =>
       LET sid == Asked(Gained(KC)[1])
       IN  ~Known(sid) =>
             IF Truthy(sid) THEN Created(sid)
             ELSE \E new_id \in DOMAIN repl_manager'.sessions :
                    Created(new_id) /\ Fresh(new_id, sid)]_vars

\* an evaluation that asked for "s" when the map was empty got a session
\* under "s", and a REPL_SESSION_START after it one under a uuid
C19_Witness ==
  /\ Len(hist[KC]) = 4
  /\ hist[KC][1].payload = EvalIn(<<120>>, ClientSid)
  /\ hist[KC][2].ev = "return"
  /\ DictGet(hist[KC][2].response, SESSION_ID_KEY, PyNone) = ClientSid
  /\ hist[KC][3].msg_type = REPL_SESSION_START
  /\ hist[KC][4].ev = "return"
  /\ DictGet(hist[KC][4].response, SESSION_ID_KEY, PyNone) = PyStr(Uuid(1))
  /\ DOMAIN repl_manager.sessions = {ClientSid, PyStr(Uuid(1))}

\* sub in text, as Python's `sub in text`
Contains(text, sub) ==
  \E i \in 0..(Len(text) - Len(sub)) : SubSeq(text, i + 1, i + Len(sub)) = sub

\* "not enabled"
NOT_ENABLED == << 110, 111, 116, 32, 101, 110, 97, 98, 108, 101, 100 >>

\* the response is a dict whose "error" is a string with "not enabled" in it
SaysNotEnabled(response) ==
  /\ response.t = "dict"
  /\ DictGet(response, ERROR_KEY, PyNone).t = "str"
  /\ Contains(DictGet(response, ERROR_KEY, PyNone).s, NOT_ENABLED)

\* C20: while the manager is disabled its session map is empty, whatever was
\* in flight when disable() ran; and a call made while it is disabled, of
\* whichever of the four types, returns an error with "not enabled" in it,
\* makes no session, touches none and hands nothing to the executor.
C20_Disabled ==
  /\ [](~repl_manager.enabled => DOMAIN repl_manager.sessions = {})
  /\ [][(CallStep /\ ~repl_manager.enabled) =>
          /\ Gained(KC)[1].msg_type \in ReplTypes
          /\ Len(Gained(KC)) = 2
          /\ Gained(KC)[2].ev = "return"
          /\ SaysNotEnabled(Gained(KC)[2].response)
          /\ UNCHANGED <<repl_manager, objs, job, minted>>]_vars

\* a REPL_SESSION_END was refused while the manager was disabled; the manager
\* was enabled, an evaluation in "s" went to the executor, and disable() ran
\* while it was there: the map is empty and the evaluation still holds its
\* session
C20_Witness ==
  /\ ~repl_manager.enabled
  /\ DOMAIN repl_manager.sessions = {}
  /\ pc[KC] = "executor"
  /\ DOMAIN objs = {job[KC][1].ref}
  /\ Len(hist[KC]) = 3
  /\ hist[KC][1].msg_type = REPL_SESSION_END
  /\ hist[KC][2].ev = "return" /\ hist[KC][2].response = ErrorDict(REPL_NOT_ENABLED)
  /\ hist[KC][3].payload = EvalIn(<<120, 61, 55>>, ClientSid)

\* the step is a REPL_SESSION_END call that the enabled manager takes, and
\* the id it names
EndStep ==
  /\ CallStep /\ repl_manager.enabled
  /\ Gained(KC)[1].msg_type = REPL_SESSION_END

\* the ids a caller may name: those of the map and the two it makes up
SomeIds == DOMAIN repl_manager.sessions \cup {ClientSid, OtherSid}

\* C21: a REPL_SESSION_END deletes the session of the id it names when the
\* map has it and nothing when it has not; a second removal of an id changes
\* nothing; the other sessions, and every session object, stay as they were;
\* and the id, looked up afterwards, names a session with the default names
\* only.
C21_RemoveSession ==
  /\ [](\A sid \in SomeIds :
          LET once == remove_session(repl_manager.sessions, sid)
          IN  /\ remove_session(once, sid) = once
              /\ sid \notin DOMAIN repl_manager.sessions => once = repl_manager.sessions)
  /\ [][/\ EndStep =>
             LET sid == Asked(Gained(KC)[1])
             IN  /\ DOMAIN repl_manager'.sessions = DOMAIN repl_manager.sessions \ {sid}
                 /\ \A t \in DOMAIN repl_manager'.sessions :
                      /\ repl_manager'.sessions[t] = repl_manager.sessions[t]
                      /\ objs'[repl_manager.sessions[t]] = objs[repl_manager.sessions[t]]
                 /\ Gained(KC)[2] = [ev |-> "return", n |-> Gained(KC)[1].n,
                                     response |-> PyDict(<< <<PyStr(SUCCESS_KEY),
                                                             PyBool(TRUE)>> >>)]
        /\ (LookupStep /\ Asked(Gained(KC)[1]) \in SomeIds
              /\ Asked(Gained(KC)[1]) \notin DOMAIN repl_manager.sessions) =>
             Created(Asked(Gained(KC)[1]))]_vars

\* x=7 was evaluated in "s", "s" was ended, and x evaluated in "s" gave a
\* NameError
C21_Witness ==
  /\ Len(hist[KC]) = 6
  /\ hist[KC][1].payload = EvalIn(<<120, 61, 55>>, ClientSid)
  /\ hist[KC][3].msg_type = REPL_SESSION_END
  /\ hist[KC][4].ev = "return"
  /\ hist[KC][5].payload = EvalIn(<<120>>, ClientSid)
  /\ OutputOf(3) = PyStr(NAME_ERROR_HEAD \o <<120>> \o NAME_ERROR_TAIL)

----------------------------------------------------------------------------
(* Claims about the failures a client reports *)

\* the step ends the call the client was waiting in, and what it ended with
CallEnds == client.call # <<>> /\ client'.call = <<>>

Ended == client'.returned[Len(client'.returned)]

\* an exception of the one kind the client has for its failures
IsIPCError(exc) == exc \in {"IPCError", "IPCError: Unexpected response type"}

\* C28: a call of the client that fails because the wait for the response ran
\* out, or because the frame it read has not the type it expects, raises
\* IPCError to its caller; and a call writes its request once.
C28_SingleErrorKind ==
  [][/\ (CallEnds /\ read_message(Unread, at_eof).kind \in {"blocked", "ok"}
           /\ Ended.out.kind = "raise" /\ Ended.out.exc # "AttributeError")
          => IsIPCError(Ended.out.exc)
     /\ nsent' \in {nsent, nsent + 1}
     /\ (rbuf'[KC] # rbuf[KC] /\ nsent' = nsent + 1) =>
          \E m \in Methods : rbuf'[KC] \in { w.written : w \in write_message(rbuf[KC], m.msg_type, m.payload) }]_vars

\* a call ended with the error read_message raises for a connection that is
\* closed, or that closed inside a frame
ConnectionError(out) ==
  out.kind = "raise" /\ out.exc \in {"IncompleteReadError", "IPCError"}

\* C29: a call of the client that waits for its response when the server has
\* closed the connection ends with a connection error.
C29_LostConnection ==
  [][(CallEnds /\ pc[KC] = "closed") =>
       /\ Ended.n = client.call[1].n
       /\ ConnectionError(Ended.out)]_vars

----------------------------------------------------------------------------
(* Claims about the server: the REPL handler and the event loop *)

\* the step of c did with the frame it read what the server does with that
\* frame when its REPL handler is h
AsWithHandler(c, h) ==
  LET K(r) ==
        \E d \in Dispatch([ServerState EXCEPT !.repl_handler = h],
                          r.msg_type, r.payload, HandlerOutcomes) :
        \E w \in Written(c, d.reply) :
          /\ pc'[c] = IF w.ok THEN d.next ELSE "closed"
          /\ wbuf'[c] = w.written
          /\ repl_manager'.sessions = d.sessions
          /\ objs' = Referenced(d.objs, d.sessions, Held(job'))
  IN  K(read_message(rbuf[c], reof[c]))

\* the step of c went on as the call m of the REPL handler says: the response
\* it returned is written on the response type of the request (none for
\* REPL_SESSION_END), an evaluation goes to the executor, an exception closes
ThroughHandler(c, m) ==
  LET t == Gained(c)[1].msg_type
  IN  /\ repl_manager'.sessions = m.sessions
      /\ CASE m.kind = "raise" -> pc'[c] = "closed" /\ wbuf'[c] = wbuf[c]
           [] m.kind = "executor" ->
                /\ pc'[c] = "executor" /\ wbuf'[c] = wbuf[c]
                /\ job'[c] = <<[ref |-> m.ref, code |-> m.code]>>
           [] OTHER ->
                \/ t \in {REPL_EVAL, REPL_SESSION_START}
                     /\ Answers(c, REPL_EVAL_RESPONSE, m.response)
                \/ t = REPL_COMPLETE /\ Answers(c, REPL_COMPLETE_RESPONSE, m.response)
                \/ t = REPL_SESSION_END /\ Silent(c)
                \/ t # REPL_SESSION_END /\ Dropped(c)

\* the request the step of c read, as read_message gave it
Request(c) == read_message(rbuf[c], reof[c])

\* C30: the REPL handler a REPL frame meets is the one installed when the
\* frame is read, on every connection, those opened before the handler was
\* set too: with a handler the frame goes to the handler, with None it is
\* answered with the "REPL not enabled" error; COMMAND, KEEPALIVE and CLOSE
\* are handled the same with and without a handler; and installing a handler
\* touches no connection.
C30_SetReplHandler ==
  [][/\ \A c \in Conns :
          /\ (ReadsRepl(c) /\ repl_handler = "None") =>
               \/ Answers(c, IF Gained(c)[1].msg_type = REPL_COMPLETE
                               THEN REPL_COMPLETE_RESPONSE ELSE REPL_EVAL_RESPONSE,
                          ErrorDict(REPL_NOT_ENABLED))
               \/ Dropped(c)
          /\ (ReadsRepl(c) /\ repl_handler # "None") =>
               ThroughHandler(c, handle_message(repl_manager, objs, qtile_locked,
                                                Request(c).msg_type, Request(c).payload,
                                                now, minted))
          /\ (Reads(c, COMMAND) \/ Reads(c, KEEPALIVE) \/ Reads(c, CLOSE)) =>
               /\ AsWithHandler(c, "None")
               /\ AsWithHandler(c, "handle_message")
     /\ repl_handler' # repl_handler =>
          UNCHANGED <<pc, rbuf, reof, wbuf, job, hist, repl_manager, objs, locked>>]_vars

\* on one connection, opened while no handler was installed, a REPL_EVAL got
\* the "REPL not enabled" error and, the handler installed since, the next
\* REPL_EVAL went to the executor
C30_Witness ==
  \E c \in Conns :
    /\ Len(hist[c]) = 3
    /\ hist[c][2] = [ev |-> "write", n |-> 1, msg_type |-> REPL_EVAL_RESPONSE,
                     payload |-> ErrorDict(REPL_NOT_ENABLED)]
    /\ hist[c][3] = [ev |-> "read", n |-> 2, msg_type |-> REPL_EVAL]
    /\ pc[c] = "executor"
    /\ repl_handler = "handle_message"

\* an evaluation asked for on c is with the executor, not yet run
Evaluating(c) == pc[c] = "executor"

\* the bytes of the frames (msg_type, payload)
FramesOf(msg_type, payload) == { m.bytes : m \in pack_message(msg_type, payload) }

\* the handler of d waits for a frame and one whole frame of those is there
\* for it
Pending(d, frames) == pc[d] = "await_frame" /\ rbuf[d] \in frames

\* C24: while an evaluation asked for on one connection is with the executor,
\* the handler of every other connection that has a KEEPALIVE to read can
\* take its turn, and a connection can be accepted if one is left; a turn
\* another connection takes meanwhile answers a KEEPALIVE with KEEPALIVE_ACK,
\* serves any other frame as the server serves it with no evaluation under
\* way, and leaves the evaluation where it is.
C24_LoopNotBlocked ==
  /\ [](\A c \in Conns : Evaluating(c) =>
          /\ \A d \in Conns \ {c} : Pending(d, FramesOf(KEEPALIVE, PyNone)) => ENABLED ServerStep(d)
          /\ (\E d \in Conns : pc[d] = "unconnected") => \E d \in Conns : ENABLED Connect(d))
  /\ [][\A c \in Conns : \A d \in Conns \ {c} :
          (Evaluating(c) /\ Gained(d) # <<>>) =>
            /\ Reads(d, KEEPALIVE) => Answers(d, KEEPALIVE_ACK, PyNone) \/ Dropped(d)
            /\ Gained(d)[1].ev = "read" => AsWithHandler(d, repl_handler)
            /\ pc'[c] = "executor" /\ job'[c] = job[c]]_vars

\* with an evaluation on one connection still with the executor, a KEEPALIVE
\* sent on the other has its KEEPALIVE_ACK
C24_Witness ==
  \E c \in Conns : \E d \in Conns \ {c} :
    /\ Evaluating(c)
    /\ hist[c] = <<[ev |-> "read", n |-> 1, msg_type |-> REPL_EVAL]>>
    /\ hist[d] = <<[ev |-> "read", n |-> 1, msg_type |-> KEEPALIVE],
                   [ev |-> "write", n |-> 1, msg_type |-> KEEPALIVE_ACK, payload |-> PyNone]>>

----------------------------------------------------------------------------
(* Claims about evaluation and completion, checked under SpecEval *)

\* the worker ran the evaluation c awaits
Evaluated(c) == pc[c] = "executor" /\ pc'[c] = "resume"

\* the await of the evaluation of c is over
Resumes(c) == pc[c] = "resume" /\ pc'[c] # "resume"

\* the step of c wrote the response of the evaluation: the session id and the
\* stripped output
WritesOutput(c) ==
  LET response == EvalResponse(objs[job[c][1].ref], job[c][1].output)
  IN  /\ Len(Gained(c)) = 1
      /\ Gained(c)[1].ev = "write"
      /\ Gained(c)[1].msg_type = REPL_EVAL_RESPONSE
      /\ Gained(c)[1].payload = response
      /\ Frames(wbuf'[c]) = Frames(wbuf[c]) \o <<Frame(REPL_EVAL_RESPONSE, response)>>
      /\ pc'[c] = "await_frame"

\* C22: whatever the code raises, evaluate_code returns: a raise statement
\* leaves the trace in the output and the namespace as it was, nothing
\* leaves the evaluation, the response is written, the connection waits for
\* its next frame and the other connections are where they were.
C22_ExceptionsCaught ==
  [][\A c \in Conns :
       /\ (Evaluated(c) /\ RaiseOf(job[c][1].code.s) # <<>>) =>
            /\ job'[c][1].exc = "none"
            /\ job'[c][1].output # <<>>
            /\ objs'[job[c][1].ref].locals = objs[job[c][1].ref].locals
       /\ Resumes(c) =>
            /\ WritesOutput(c) \/ (reof[c] /\ pc'[c] = "closed")
            /\ \A d \in Conns \ {c} : pc'[d] = pc[d]]_vars


\* the step of c wrote a REPL_COMPLETE_RESPONSE for the frame it read and
\* waits for the next frame
Completes(c) ==
  /\ Len(Gained(c)) = 2
  /\ Gained(c)[2].ev = "write"
  /\ Gained(c)[2].n = Gained(c)[1].n
  /\ Gained(c)[2].msg_type = REPL_COMPLETE_RESPONSE
  /\ (repl_handler # "None" /\ repl_manager.enabled) =>
        DictGet(Gained(c)[2].payload, COMPLETIONS_KEY, PyNone).t = "list"
  /\ pc'[c] = "await_frame"

\* C25: a REPL_COMPLETE request, whatever its text, is answered with a
\* REPL_COMPLETE_RESPONSE, which holds a list of candidates when the REPL is
\* on; nothing is raised and the connection is not closed for it (a peer that
\* has gone aside).
C25_CompletionAnswered ==
  [][\A c \in Conns : Reads(c, REPL_COMPLETE) => Completes(c) \/ Dropped(c)]_vars


\* the step of c read a frame of type t that the manager serves: a handler is
\* installed, the manager is enabled and the session is not locked
Serves(c, t) ==
  /\ Reads(c, t)
  /\ repl_handler # "None"
  /\ repl_manager.enabled
  /\ ~qtile_locked

\* the step of c left its request with the executor: nothing is written yet
\* and the handler awaits the worker
HandsOff(c) ==
  /\ Len(Gained(c)) = 1
  /\ wbuf'[c] = wbuf[c]
  /\ pc'[c] = "executor"

\* C36: a REPL_COMPLETE request that the manager serves is handed to a
\* worker, as a REPL_EVAL request is: the turn of the loop that reads it
\* ends at the await of the executor, with no response written yet, so the
\* other connections take their turns while the candidates are computed.
C36_CompletionOffLoop ==
  [][\A c \in Conns : Serves(c, REPL_COMPLETE) => HandsOff(c)]_vars
----------------------------------------------------------------------------
(* Claims about get_completions, checked under SpecComplete *)

HasDot(text) == \E i \in 1..Len(text) : text[i] = 46

\* the call made last
Call == completion[1]

\* the names local_vars binds
Names(local_vars) == { local_vars[i][1] : i \in 1..Len(local_vars) }

\* the list holds each string of S once and nothing else
ListsOnce(list, S) ==
  /\ { list[i] : i \in 1..Len(list) } = S
  /\ Len(list) = Cardinality(S)

\* the candidate for a name bound to v, or for an attribute of value v
Candidate(name, v) == PyStr(name \o (IF Callable(v) THEN <<40>> ELSE <<>>))

\* C26: for a text with no "." (here: a name or the beginning of one), the
\* result lists once each the names of the namespace that start with the
\* text, those bound to a callable with "(" after them.
C26_TopLevel ==
  (completion # <<>> /\ Call.text # <<>> /\ \A i \in 1..Len(Call.text) : IsWord(Call.text[i]))
    => /\ Call.out.ok
       /\ ListsOnce(Call.out.options,
                    { Candidate(Call.local_vars[i][1], Call.local_vars[i][2]) :
                        i \in { j \in 1..Len(Call.local_vars) :
                                  StartsWith(Call.local_vars[j][1], Call.text) } })

\* the candidates for the attributes of the value of base that start with
\* prefix, none when base has no value
AttributeCandidates(base, prefix, local_vars) ==
  LET K(r) ==
        IF ~r.ok THEN {}
        ELSE { Candidate(base \o <<46>> \o Attributes(r.val)[i][1], Attributes(r.val)[i][2]) :
                 i \in { j \in 1..Len(Attributes(r.val)) :
                           StartsWith(Attributes(r.val)[j][1], prefix) } }
  IN  K(EvalDotted(base, local_vars))

\* C27, as the claim has it: for a text with a ".", the text is split at its
\* last ".", and the result lists "<base>.<attr>" for the attributes of the
\* value of the part before it that start with the part after it, with "("
\* after the callable ones.
C27_SplitsText ==
  (completion # <<>> /\ HasDot(Call.text))
    => /\ Call.out.ok
       /\ ListsOnce(Call.out.options,
                    AttributeCandidates(SubSeq(Call.text, 1, LastDot(Call.text) - 1),
                                        SubSeq(Call.text, LastDot(Call.text) + 1,
                                               Len(Call.text)),
                                        Call.local_vars))

\* C27, amended: for a text with a ".", the longest run of word characters
\* and dots that ends the text (a line end that ends it aside) is split at
\* its last "." (the whole run is the
\* base and the prefix empty when it has none; no run, no candidates), and
\* the result lists "<base>.<attr>" for the attributes of the value of the
\* base that start with the prefix, with "(" after the callable ones, and
\* nothing when the base has no value.
C27_SplitsRun ==
  (completion # <<>> /\ HasDot(Call.text))
    => LET run == TrailingRun(Call.text)
           k == LastDot(run)
       IN  /\ Call.out.ok
           /\ ListsOnce(Call.out.options,
                        IF run = <<>> THEN {}
                        ELSE IF k = 0 THEN AttributeCandidates(run, <<>>, Call.local_vars)
                        ELSE AttributeCandidates(SubSeq(run, 1, k - 1),
                                                 SubSeq(run, k + 1, Len(run)),
                                                 Call.local_vars))

\* "(d." completed with d bound to a Dummy gave the four attributes of d,
\* "d.method(" the third
C27_Witness ==
  /\ completion # <<>>
  /\ Call.text = <<40, 100, 46>>
  /\ Call.local_vars # <<>>
  /\ Call.local_vars[1] = << <<100>>, PyObject("Dummy") >>
  /\ Call.out.ok
  /\ Len(Call.out.options) = 4
  /\ Call.out.options[3] = PyStr(<<100, 46, 109, 101, 116, 104, 111, 100, 40>>)

----------------------------------------------------------------------------
(* Claims about the streams of the host, checked under SpecStreams *)

\* C23: whenever no evaluation is in progress, sys.stdout and sys.stderr are
\* the streams of the host that were there before any evaluation started,
\* however the evaluations left their code and however they were interleaved.
C23_StreamsRestored ==
  (\A c \in Conns : threads[c] = <<>>) => sys.stdout = HostStream /\ sys.stderr = HostStream

\* the evaluation of c returns what its StringIO holds
Returns(c) ==
  /\ threads[c] # <<>>
  /\ threads[c][1].at = "close"
  /\ threads'[c] = <<>>
  /\ threads[c][1].path # "SystemExit"

\* C34: what an evaluation returns holds the text it printed and no text of
\* another evaluation, and nothing an evaluation prints is written to the
\* stream of the host.
C34_OutputsApart ==
  /\ [](sys.written = <<>>)
  /\ [][\A c \in Conns :
          Returns(c) =>
            threads[c][1].text = (IF threads[c][1].printed THEN <<c>> ELSE <<>>)]_vars

----------------------------------------------------------------------------
(* Claims about CLOSE and the types the server does not handle, checked
   under SpecFrames *)

\* the handler of c has read a CLOSE frame
ReadClose(c) == \E i \in 1..Len(hist[c]) : hist[c][i].ev = "read" /\ hist[c][i].msg_type = CLOSE

\* C31: the step that reads CLOSE calls no handler, writes nothing and ends
\* the connection with its writer closed; once a CLOSE is read the
\* connection is closed and stays closed, and whatever frames follow in the
\* stream are not read, call no handler and get no response.
C31_CloseEnds ==
  /\ [](\A c \in Conns : ReadClose(c) => pc[c] = "closed")
  /\ [][\A c \in Conns :
          /\ Reads(c, CLOSE) =>
                /\ Len(Gained(c)) = 2 /\ Gained(c)[2].ev = "close"
                /\ pc'[c] = "closed"
                /\ wbuf'[c] = wbuf[c]
                /\ UNCHANGED <<locked, repl_handler, repl_manager, objs, job, minted>>
          /\ ReadClose(c) =>
                /\ hist'[c] = hist[c]
                /\ wbuf'[c] = wbuf[c]
                /\ UNCHANGED <<repl_manager, objs, job, minted>>]_vars

\* a CLOSE was read on a connection, a KEEPALIVE and a COMMAND had followed it
\* and lie unread, and nothing was written
C31_Witness ==
  \E c \in Conns :
    /\ ReadClose(c)
    /\ Len(hist[c]) = 2
    /\ Frames(rbuf[c]) = <<Frame(KEEPALIVE, PyNone), Frame(COMMAND, PyList(<<PyInt(7)>>))>>
    /\ wbuf[c] = <<>>
    /\ pc[c] = "closed"

\* the handler of c has read a frame of a type that is a response
ReadResponse(c) ==
  \E i \in 1..Len(hist[c]) : hist[c][i].ev = "read" /\ hist[c][i].msg_type \in ResponseTypes

\* C32: a frame of a response type gets no response and no handler call and
\* changes nothing of the server; the handler waits for the next frame, and
\* a KEEPALIVE that follows is read and acknowledged.
C32_ResponseTypesIgnored ==
  /\ [](\A c \in Conns :
          (Pending(c, FramesOf(KEEPALIVE, PyNone)) /\ ReadResponse(c))
            => ENABLED ServerStep(c))
  /\ [][\A c \in Conns :
          /\ (\E t \in ResponseTypes : Reads(c, t)) =>
                /\ Len(Gained(c)) = 2 /\ Gained(c)[2].ev = "skip"
                /\ pc' = pc
                /\ pc[c] = "await_frame"
                /\ wbuf' = wbuf
                /\ UNCHANGED <<locked, repl_handler, repl_manager, objs, job, minted,
                               qtile_locked, now>>
          /\ (ReadResponse(c) /\ Reads(c, KEEPALIVE)) =>
                Answers(c, KEEPALIVE_ACK, PyNone) \/ Dropped(c)]_vars

\* a KEEPALIVE_ACK and a COMMAND_RESPONSE were read and skipped, and the
\* KEEPALIVE after them was acknowledged
C32_Witness ==
  \E c \in Conns :
    /\ Len(hist[c]) = 6
    /\ hist[c][1].ev = "read" /\ hist[c][1].msg_type = KEEPALIVE_ACK
    /\ hist[c][2].ev = "skip"
    /\ hist[c][3].ev = "read" /\ hist[c][3].msg_type = COMMAND_RESPONSE
    /\ hist[c][5].ev = "read" /\ hist[c][5].msg_type = KEEPALIVE
    /\ Frames(wbuf[c]) = <<Frame(KEEPALIVE_ACK, PyNone)>>
    /\ pc[c] = "await_frame"

----------------------------------------------------------------------------
(* Claims about the pairing of requests and responses, checked under
   SpecClient *)

\* none of the first k calls of the client timed out
NoTimeout(k) ==
  \A j \in 1..k :
    ~(client.returned[j].out.kind = "raise" /\ client.returned[j].out.exc = "TimeoutError")

\* C33: with no call timed out before, the call that follows an
\* end_repl_session and gets a frame returns the server's response to its
\* own request, with a REPL handler installed on the server or without.
C33_EndSessionLeavesNone ==
  \A i \in 2..Len(client.returned) :
    LET before == client.returned[i - 1]
        e == client.returned[i]
    IN  (before.op = "end_repl_session" /\ before.out.kind = "return"
           /\ NoTimeout(i - 1) /\ Answered(e))
          => OwnResponse(e)

----------------------------------------------------------------------------
(* Claims about evaluate_code, checked under SpecSession *)

\* the calls of evaluate_code made on the session
Evaluations == evaluation.calls

\* the namespace call i left
After(i) == IF i < Len(Evaluations) THEN Evaluations[i + 1].before ELSE evaluation.session.locals

\* the text is an expression: compile(code, "<stdin>", "eval") takes it
ParsesAsExpression(code) == IsAtom(code) \/ CallOf(code) # <<>>

\* the times the function bound to name has been called, 0 for any other
\* value and for no value
CallsOf(locals, name) ==
  LET K(at) == IF at = 0 THEN 0
               ELSE IF "calls" \in DOMAIN locals[at][2] THEN locals[at][2].calls
               ELSE 0
  IN  K(Lookup(locals, name))

\* C35: one call of evaluate_code runs the code it is given at most once: a
\* text that is an expression is not run again as a statement when its
\* evaluation raises; the function an expression calls is called once.
C35_RunsOnce ==
  \A i \in 1..Len(Evaluations) :
    /\ Evaluations[i].runs <= 1
    /\ CallOf(Evaluations[i].code) # <<>> =>
          CallsOf(After(i), CallOf(Evaluations[i].code))
            <= CallsOf(Evaluations[i].before, CallOf(Evaluations[i].code)) + 1

\* C37: the statement compiler is used only for a text that is no
\* expression; an expression that gives a value other than None puts the
\* repr of the value and a line end in the output, one that gives None puts
\* nothing, and an assignment puts nothing.
C37_ExpressionFirst ==
  \A i \in 1..Len(Evaluations) :
    LET code == Evaluations[i].code
        value == EvalAtom(Evaluations[i].before, code)
    IN  /\ Evaluations[i].tried[1] = "eval"
        /\ (Len(Evaluations[i].tried) > 1) => ~ParsesAsExpression(code)
        /\ (IsAtom(code) /\ value.ok) => Evaluations[i].output = Repr(value.val) \o <<10>>
        /\ code = G_KEY \o <<40, 41>> => Evaluations[i].output = <<>>
        /\ (AssignAt(code) # 0 /\ After(i) # Evaluations[i].before) => Evaluations[i].output = <<>>

\* "if x:" and "(x": each begins a statement and does not end it
Unfinished == { <<105, 102, 32, 120, 58>>, <<40, 120>> }

\* C38: a text that begins a statement and does not end it gives empty
\* output and raises nothing, nothing of it is run and the namespace is as
\* it was; the call after it on the session evaluates as ever: x, bound to
\* 123, gives "123".
C38_IncompleteStatement ==
  \A i \in 1..Len(Evaluations) :
    Evaluations[i].code \in Unfinished =>
      /\ Evaluations[i].output = <<>>
      /\ Evaluations[i].exc = "none"
      /\ Evaluations[i].runs = 0
      /\ After(i) = Evaluations[i].before
      /\ (i < Len(Evaluations) /\ Evaluations[i + 1].code = <<120>>) =>
            Evaluations[i + 1].output = <<49, 50, 51, 10>>

\* "if x:" and then x were evaluated
C38_Witness ==
  /\ Len(Evaluations) = 2
  /\ Evaluations[1].code = IF_ \o <<120, 58>>
  /\ Evaluations[1].output = <<>>
  /\ Evaluations[2].code = <<120>>
  /\ Evaluations[2].output = <<49, 50, 51, 10>>

----------------------------------------------------------------------------
(* Claims about the one-shot client, checked under SpecOneShot *)

\* a call of send that had connected leaves async_send in this step
SendEnds == oneshot.call.at # "idle" /\ oneshot'.call.at = "idle"

\* the call that ended last, as it was when it left, and what it gave
LastSend == oneshot'.returned[Len(oneshot'.returned)]

\* the frames the call gave to its writer
Wrote(call) == Frames(call.wrote)

\* the frames the call took from its reader, out of the bytes its reader held
Took(call, held) == Frames(SubSeq(held, 1, call.taken))

\* the call opened one connection and closed it, the server was given the
\* end of the stream, the call read at most one frame, and what it returned
\* is the payload of a COMMAND_RESPONSE it read
OneConnectionClosed(call, out, held) ==
  /\ call.opened = 1
  /\ call.closed
  /\ call.peer = "server" => reof'[call.conn]
  /\ Len(Took(call, held)) <= 1
  /\ out.kind = "return" => Took(call, held) = <<Frame(COMMAND_RESPONSE, out.value)>>

\* the server read no more than one frame on a connection, a COMMAND
OneCommandRead ==
  \A c \in Conns :
    /\ Cardinality({ i \in 1..Len(hist[c]) : hist[c][i].ev = "read" }) <= 1
    /\ \A i \in 1..Len(hist[c]) : hist[c][i].ev = "read" => hist[c][i].msg_type = COMMAND

\* C39 as stated: every call of send that connected wrote exactly one COMMAND
\* frame, read at most one frame, returned a payload only of a
\* COMMAND_RESPONSE and closed its connection, whichever way it left.
C39_OneFrameEachCall ==
  /\ []OneCommandRead
  /\ [][SendEnds =>
          /\ OneConnectionClosed(LastSend.call, LastSend.out, OneShotIn)
          /\ Wrote(LastSend.call) = <<Frame(COMMAND, LastSend.call.msg)>>]_vars

\* C39, amended: a call of send that connected wrote exactly one COMMAND
\* frame when its message can be encoded as JSON and no frame otherwise;
\* it read at most one frame, returned a payload only of a COMMAND_RESPONSE
\* and closed its connection, whichever way it left (success, encode error,
\* write error, response timeout, unexpected response type, decode error,
\* end of the stream); the server read at most one frame from it, a COMMAND.
C39_OneShot ==
  /\ []OneCommandRead
  /\ [][SendEnds =>
          /\ OneConnectionClosed(LastSend.call, LastSend.out, OneShotIn)
          /\ Wrote(LastSend.call) =
               (IF LastSend.call.msg = PyList(<<PyInt(7)>>)
                  THEN <<Frame(COMMAND, LastSend.call.msg)>> ELSE <<>>)]_vars

\* calls of send have left each way the claim lists: one returned a payload,
\* and one each raised for a timeout, an unexpected type, a payload that is
\* no JSON and a message that cannot be encoded
C39_Witness ==
  LET Gave(P(_)) == \E i \in 1..Len(oneshot.returned) : P(oneshot.returned[i])
      Returned(e) == e.out.kind = "return" /\ e.call.peer = "server"
      Raised(exc) ==
        \E i \in 1..Len(oneshot.returned) :
          /\ oneshot.returned[i].out.kind = "raise"
          /\ oneshot.returned[i].out.exc = exc
          /\ oneshot.returned[i].call.closed
  IN  /\ oneshot.call.at = "idle"
      /\ Gave(Returned)
      /\ \/ Raised("IPCError: Server not responding")
         \/ Raised("IPCError: Unexpected response type")
         \/ Raised("IPCError")
         \/ Raised("ValueError")
----------------------------------------------------------------------------
(* Claims about connect and close of the persistent client, checked under
   SpecPersist *)

\* connect() or close() was called in this step; LastLifecycle is what it gave
LifecycleCall(op) ==
  /\ Len(client'.lifecycle) = Len(client.lifecycle) + 1
  /\ client'.lifecycle[Len(client'.lifecycle)].op = op

LastLifecycle == client'.lifecycle[Len(client'.lifecycle)]

\* one of the send, start and end methods was called in this step
MethodCall == nsent' = nsent + 1 /\ client'.lifecycle = client.lifecycle

\* the call of connect() or close() made last was a close()
AfterClose ==
  client.lifecycle # <<>> /\ client.lifecycle[Len(client.lifecycle)].op = "close"

\* the method called in this step raised IPCError("Not connected") and
\* wrote nothing
RaisesNotConnected ==
  /\ rbuf' = rbuf
  /\ client'.call = <<>>
  /\ Len(client'.returned) = Len(client.returned) + 1
  /\ client'.returned[Len(client'.returned)].out =
       [kind |-> "raise", exc |-> "IPCError: Not connected"]

\* the connect() of this step opened a connection the server had not
\* accepted before, and reader and writer are those of that connection
OpensNew ==
  /\ LastLifecycle.opened
  /\ client'.reader = "open" /\ client'.writer = "open"
  /\ client'.conn \in Conns
  /\ pc[client'.conn] = "unconnected" /\ pc'[client'.conn] = "await_frame"
  /\ client'.taken = 0

\* C40: reader and writer are both set or both unset; connect() on a
\* connected client opens no connection; close() on an unconnected client
\* changes nothing; after close() every method raises "Not connected" and
\* writes nothing; connect() after close() opens a new connection, and a
\* method called on it writes its request there.
C40_ConnectClose ==
  /\ []((client.reader = "None") <=> (client.writer = "None"))
  /\ [][/\ (LifecycleCall("connect") /\ client.writer # "None" /\ ~AfterClose) =>
             /\ pc' = pc
             /\ ~LastLifecycle.opened
             /\ client'.conn = client.conn
        /\ (LifecycleCall("close") /\ client.writer = "None") =>
             /\ UNCHANGED <<pc, rbuf, reof, wbuf>>
             /\ client'.reader = "None" /\ client'.writer = "None"
        /\ (MethodCall /\ AfterClose) => RaisesNotConnected
        /\ (LifecycleCall("connect") /\ AfterClose) => OpensNew
        /\ (MethodCall /\ ~AfterClose /\ client.lifecycle # <<>> /\ pc[KC] # "closed") =>
             /\ Len(rbuf'[KC]) > Len(rbuf[KC])
             /\ \A c \in Conns \ {KC} : rbuf'[c] = rbuf[c]]_vars
====
